---- MODULE Spec2Model ----
(***************************************************************************)
(* Tiled raster transforms of OpenGeo:                                     *)
(*   focal/focal_stat_raster.py            focal_stat, focal_stat_raster   *)
(*   raster/replace_pixel_value_based_other_rst.py   replace_pixel_value   *)
(*   raster/create_mask.py                 create_mask                     *)
(*   raster/compute_probability_of_phenomena_using_list.py                 *)
(*                                compute_probability_of_phenomena         *)
(*   raster/convert_to_8bit.py             normalize, convert_to_8bit      *)
(*   raster/mask_raster_with_polygon.py    mask_raster_with_polygon        *)
(*   raster/compute_probability_of_phenomena_using_folder.py               *)
(*                                compute_probability_of_phenomena         *)
(*   raster/resample_geotiff.py            resample_geotiff                *)
(*                                                                         *)
(* Specifications: Spec (a focal_stat_raster pass), SpecUnit (focal_stat   *)
(* on one window), SpecTiles (replace_pixel_value, create_mask),           *)
(* SpecAnyOrder (the tile loop bodies with the tiles in any order),        *)
(* SpecRerun (the same call made again), SpecConvert, SpecPoly, SpecCount  *)
(* (the list and folder versions of compute_probability_of_phenomena),     *)
(* SpecResample.                                                           *)
(*                                                                         *)
(* Floating point values are modelled as exact rationals <<n, d>> with     *)
(* d > 0 in lowest terms; NaN is <<0, 0>>.  A square root is truncated to  *)
(* three decimals.  Raw raster cells are integers.  kernel_size ranges     *)
(* over -MaxKernel..MaxKernel.                                             *)
(***************************************************************************)
EXTENDS Integers, Sequences, FiniteSets, TLC

\* ------------------------------------------------------------------ bounds
MaxDim == 4
MaxBlock == 2
MaxKernel == 3
MaxVal == 4
MaxValid == 4
MaxTile == 3

\* -------------------------------------------------------- program constants
OUTPUT_NODATA == -9999
DEFAULT_BLOCK == 1024
DEFAULT_TILE_SIZE == 1024

\* --------------------------------------------------------------- rationals
RECURSIVE GCD(_, _)
GCD(a, b) == IF b = 0 THEN a ELSE GCD(b, a % b)

Abs(n) == IF n < 0 THEN -n ELSE n

NaN == <<0, 0>>
IsNaN(x) == x[2] = 0

Rat(n, d) == LET g == GCD(Abs(n), d) IN <<n \div g, d \div g>>
FromInt(n) == <<n, 1>>
RAdd(x, y) == Rat(x[1] * y[2] + y[1] * x[2], x[2] * y[2])
RSub(x, y) == Rat(x[1] * y[2] - y[1] * x[2], x[2] * y[2])
RMul(x, y) == Rat(x[1] * y[1], x[2] * y[2])
RDivInt(x, n) == Rat(x[1], x[2] * n)
RLe(x, y) == x[1] * y[2] <= y[1] * x[2]

RECURSIVE ISqrtBetween(_, _, _)
ISqrtBetween(n, lo, hi) ==
    IF lo >= hi THEN lo
    ELSE LET mid == (lo + hi + 1) \div 2
         IN IF mid * mid <= n THEN ISqrtBetween(n, mid, hi)
            ELSE ISqrtBetween(n, lo, mid - 1)

\* sqrt of a non-negative rational, truncated to three decimals
RSqrt(x) ==
    LET n == (1000000 * x[1]) \div x[2]
        hi == 1000 * ((x[1] \div x[2]) + 1)
    IN Rat(ISqrtBetween(n, 0, IF hi > 46340 THEN 46340 ELSE hi), 1000)

\* ------------------------------------------------------ numpy reductions
RECURSIVE SeqSum(_)
SeqSum(s) == IF s = <<>> THEN FromInt(0) ELSE RAdd(s[1], SeqSum(Tail(s)))

RECURSIVE Insert(_, _)
Insert(x, s) ==
    IF s = <<>> THEN <<x>>
    ELSE IF RLe(x, s[1]) THEN <<x>> \o s
    ELSE <<s[1]>> \o Insert(x, Tail(s))

RECURSIVE np_sort(_)
np_sort(s) == IF s = <<>> THEN <<>> ELSE Insert(s[1], np_sort(Tail(s)))

np_sum(v) == SeqSum(v)
np_mean(v) == RDivInt(SeqSum(v), Len(v))
np_min(v) == np_sort(v)[1]
np_max(v) == np_sort(v)[Len(v)]

np_median(v) ==
    LET s == np_sort(v)
        n == Len(v)
    IN IF n % 2 = 1 THEN s[(n + 1) \div 2]
       ELSE RDivInt(RAdd(s[n \div 2], s[(n \div 2) + 1]), 2)

SqDev(v, m) == [i \in 1..Len(v) |-> RMul(RSub(v[i], m), RSub(v[i], m))]
np_var_sample(v) ==
    IF Len(v) = 1 THEN FromInt(0)
    ELSE RDivInt(SeqSum(SqDev(v, np_mean(v))), Len(v) - 1)
np_var(v) == np_mean(SqDev(v, np_mean(v)))
np_std(v) == RSqrt(np_var(v))

\* ------------------------------------------------------------ 2-D arrays
\* An array of shape (rows, cols); at[<<i, j>>] is the cell of row i, column j.
Cells(rows, cols) == (0..(rows - 1)) \X (0..(cols - 1))
Block(rows, cols, at) == [rows |-> rows, cols |-> cols, at |-> at]
EmptyBlock == [rows |-> 0, cols |-> 0, at |-> <<>>]

\* indices selected by the Python slice [start:stop] of a length-n axis
PyClamp(n, k) ==
    LET a == IF k < 0 THEN k + n ELSE k
    IN IF a < 0 THEN 0 ELSE IF a > n THEN n ELSE a
PySlice(n, start, stop) ==
    LET a == PyClamp(n, start)
        b == PyClamp(n, stop)
    IN [k \in 1..(IF b > a THEN b - a ELSE 0) |-> a + k - 1]

\* ------------------------------------------------------------- focal_stat
Implemented ==
    {"mean", "median", "min", "max", "std", "sum", "range", "variance"}
CliChoices == Implemented \cup {"majority", "minority", "unique_count"}
StatNames == CliChoices \cup {"mode"}

Reduce(stat, valid_values) ==
    CASE stat = "mean" -> np_mean(valid_values)
      [] stat = "median" -> np_median(valid_values)
      [] stat = "min" -> np_min(valid_values)
      [] stat = "max" -> np_max(valid_values)
      [] stat = "std" -> np_std(valid_values)
      [] stat = "sum" -> np_sum(valid_values)
      [] stat = "range" -> RSub(np_max(valid_values), np_min(valid_values))
      [] stat = "variance" -> np_var(valid_values)
      [] OTHER -> NaN

\* arr[i-pad:i+pad+1, j-pad:j+pad+1].flatten()
WindowOf(a, pad, i, j) ==
    LET ri == PySlice(a.rows, i - pad, i + pad + 1)
        ci == PySlice(a.cols, j - pad, j + pad + 1)
        n == Len(ci)
    IN [k \in 1..(Len(ri) * n) |->
            a.at[<<ri[((k - 1) \div n) + 1], ci[((k - 1) % n) + 1]>>]]

NotNaN(x) == ~IsNaN(x)
ValidValues(window) == SelectSeq(window, NotNaN)

FocalPixel(a, pad, stat, i, j) ==
    LET valid_values == ValidValues(WindowOf(a, pad, i, j))
    IN IF Len(valid_values) > 0 THEN Reduce(stat, valid_values) ELSE NaN

\* focal_stat(arr, kernel_size, stat).  With a negative pad_size the loop
\* indices start below zero and output[i, j] then addresses the cell counted
\* from the end of the axis; the last assignment to a cell is the one kept.
focal_stat(a, kernel_size, stat) ==
    LET pad_size == kernel_size \div 2
        InLoop(i, j) == /\ pad_size <= i /\ i < a.rows - pad_size
                        /\ pad_size <= j /\ j < a.cols - pad_size
        Assigned(i, j) ==
            InLoop(i, j) /\ ~IsNaN(FocalPixel(a, pad_size, stat, i, j))
        output(i, j) ==
            IF Assigned(i, j) THEN FocalPixel(a, pad_size, stat, i, j)
            ELSE IF Assigned(i, j - a.cols)
            THEN FocalPixel(a, pad_size, stat, i, j - a.cols)
            ELSE IF Assigned(i - a.rows, j)
            THEN FocalPixel(a, pad_size, stat, i - a.rows, j)
            ELSE IF Assigned(i - a.rows, j - a.cols)
            THEN FocalPixel(a, pad_size, stat, i - a.rows, j - a.cols)
            ELSE NaN
        ri == PySlice(a.rows, pad_size, -pad_size)
        ci == PySlice(a.cols, pad_size, -pad_size)
        trimmed(i, j) == output(ri[i + 1], ci[j + 1])
    IN Block(Len(ri), Len(ci), [p \in Cells(Len(ri), Len(ci)) |-> trimmed(p[1], p[2])])

ToNaNKeepAll(a, input_nodata) ==
    LET f(i, j) == FromInt(a.at[<<i, j>>])
    IN Block(a.rows, a.cols, [p \in Cells(a.rows, a.cols) |-> f(p[1], p[2])])
\* np.where(arr == input_nodata, np.nan, arr); input_nodata is the set
\* holding src.nodata, empty for None
ToNaN(a, input_nodata) ==
    LET f(i, j) == IF a.at[<<i, j>>] \in input_nodata THEN NaN
                   ELSE FromInt(a.at[<<i, j>>])
    IN Block(a.rows, a.cols, [p \in Cells(a.rows, a.cols) |-> f(p[1], p[2])])

\* np.where(np.isnan(filtered_arr), output_nodata, filtered_arr)
FromNaN(a, output_nodata) ==
    LET f(i, j) == IF IsNaN(a.at[<<i, j>>]) THEN FromInt(output_nodata)
                   ELSE a.at[<<i, j>>]
    IN Block(a.rows, a.cols, [p \in Cells(a.rows, a.cols) |-> f(p[1], p[2])])

\* lines 88-94 of focal_stat_raster on one raw block
FilterBlock(raw, input_nodata, kernel_size, stat) ==
    FromNaN(focal_stat(ToNaN(raw, input_nodata), kernel_size, stat), OUTPUT_NODATA)

\* ----------------------------------------------------------------- state
VARIABLES
    entry,          \* "main": through main(); "direct": focal_stat_raster called
    kernel_size,    \* argument kernel_size
    stat,           \* argument stat
    src,            \* the input raster: width, height, nodata, block shape, px
    write_mode,     \* what dst.write does with an array of another shape
    pc,             \* position in main / focal_stat_raster
    err,            \* the exception that ended the call, "" when none
    dst_created,    \* the output raster has been created (line 72)
    dst,            \* pixel values of the output raster
    written,        \* times each output pixel has been written
    blk,            \* block windows of src.block_windows(1) consumed so far
    arr,            \* last array read (line 85)
    filtered_arr,   \* last array handed to dst.write (line 97)
    writes,         \* the dst.write calls so far: window and array shape
    u_vals,         \* focal_stat on one window: the valid values put in it
    tile_size,      \* replace_pixel_value: argument tile_size
    value_to_replace,   \* replace_pixel_value: argument value_to_replace
    src1,           \* replace_pixel_value: the source raster
    src2,           \* replace_pixel_value: the reference raster
    printed,        \* replace_pixel_value: the message printed before returning
    i_off,          \* replace_pixel_value: loop variable i (row offset)
    j_off,          \* replace_pixel_value: loop variable j (column offset)
    ds,             \* create_mask: the input dataset
    block_x,        \* create_mask: chosen block width
    block_y,        \* create_mask: chosen block height
    total_blocks,   \* create_mask: total of the progress bar
    pbar_n,         \* create_mask: blocks counted by the progress bar
    y_off,          \* create_mask: loop variable y (row offset)
    x_off,          \* create_mask: loop variable x (column offset)
    run,            \* number of the call being made with these arguments
    tiff_list,      \* compute_probability_of_phenomena: the input rasters
    pixel_value_of_phenomena,   \* compute_probability_of_phenomena: argument
    total_occurrences,  \* compute_probability_of_phenomena: the accumulator
    idx,            \* compute_probability_of_phenomena: rasters processed
    p_blk,          \* compute_probability_of_phenomena: blocks of raster idx done
    cv_src,         \* convert_to_8bit: the input raster
    band_mins,      \* convert_to_8bit: minimum of each band scanned so far
    band_maxs,      \* convert_to_8bit: maximum of each band scanned so far
    band_data,      \* convert_to_8bit: shape of the array read at line 30
    data_block,     \* convert_to_8bit: shape of the array read at line 57
    ci_off,         \* convert_to_8bit: loop variable i (row offset)
    cj_off,         \* convert_to_8bit: loop variable j (column offset)
    poly_src,       \* mask_raster_with_polygon: the input raster
    geometries,     \* mask_raster_with_polygon: pixels the polygons cover
    dtype,          \* mask_raster_with_polygon: local dtype, "" while unbound
    nodata_value,   \* mask_raster_with_polygon: local nodata_value
    poly_blk,       \* mask_raster_with_polygon: block windows consumed so far
    rs_src,         \* resample_geotiff: the input raster: width, height, GSD
    target_gsd,     \* resample_geotiff: argument target_gsd
    resampling_method,  \* resample_geotiff: argument resampling_method
    block_size,     \* resample_geotiff: argument block_size, <<x, y>>
    row_start,      \* resample_geotiff: loop variable row_start
    col_start       \* resample_geotiff: loop variable col_start

commonVars == <<pc, err, dst_created, dst, written, writes>>
focalOnly == <<entry, kernel_size, stat, src, write_mode, blk, arr, filtered_arr>>
unitVars == <<u_vals>>
replaceOnly == <<tile_size, value_to_replace, src1, src2, printed, i_off, j_off>>
maskOnly == <<ds, block_x, block_y, total_blocks, pbar_n, y_off, x_off>>
callVars == <<run>>
probOnly == <<tiff_list, pixel_value_of_phenomena, total_occurrences, idx, p_blk>>
convertOnly == <<cv_src, band_mins, band_maxs, band_data, data_block, ci_off, cj_off>>
polyOnly == <<poly_src, geometries, dtype, nodata_value, poly_blk>>
resampleOnly == <<rs_src, target_gsd, resampling_method, block_size, row_start,
                  col_start>>
notFocal ==
    <<unitVars, replaceOnly, maskOnly, callVars, probOnly, convertOnly, polyOnly,
      resampleOnly>>
notReplace ==
    <<focalOnly, unitVars, maskOnly, callVars, probOnly, convertOnly, polyOnly,
      resampleOnly>>
notMask ==
    <<focalOnly, unitVars, replaceOnly, callVars, probOnly, convertOnly, polyOnly,
      resampleOnly>>
notProb ==
    <<focalOnly, unitVars, replaceOnly, maskOnly, convertOnly, polyOnly,
      resampleOnly>>
notConvert ==
    <<focalOnly, unitVars, replaceOnly, maskOnly, probOnly, polyOnly,
      resampleOnly>>
notPoly ==
    <<focalOnly, unitVars, replaceOnly, maskOnly, probOnly, convertOnly,
      resampleOnly>>
notResample ==
    <<focalOnly, unitVars, replaceOnly, maskOnly, callVars, probOnly,
      convertOnly, polyOnly>>
vars == <<commonVars, focalOnly, unitVars, replaceOnly, maskOnly, callVars,
          probOnly, convertOnly, polyOnly, resampleOnly>>

\* ------------------------------------------------------ rasterio windows
Min(a, b) == IF a < b THEN a ELSE b
Max(a, b) == IF a > b THEN a ELSE b
FloorDiv(a, b) == a \div b
CeilDiv(a, b) == (a + b - 1) \div b

Window(col_off, row_off, width, height) ==
    [col_off |-> col_off, row_off |-> row_off, width |-> width, height |-> height]

\* src.block_windows(1): the blocks of the band, row-major, clipped to the raster
NumBlocks(r) == CeilDiv(r.height, r.block_h) * CeilDiv(r.width, r.block_w)
BlockWindow(r, k) ==
    LET nbx == CeilDiv(r.width, r.block_w)
        row == (k \div nbx) * r.block_h
        col == (k % nbx) * r.block_w
    IN Window(col, row, Min(r.block_w, r.width - col), Min(r.block_h, r.height - row))

PaddedWindowUnclipped(r, window, pad_size) ==
    Window(window.col_off - pad_size, window.row_off - pad_size,
           window.width + 2 * pad_size, window.height + 2 * pad_size)
\* the padded window of lines 77-82
PaddedWindow(r, window, pad_size) ==
    Window(Max(0, window.col_off - pad_size),
           Max(0, window.row_off - pad_size),
           Min(window.width + 2 * pad_size, r.width - window.col_off),
           Min(window.height + 2 * pad_size, r.height - window.row_off))

\* the fill of a boundless read: the raster's nodata, 0 when it has none
FillValue(r) == IF r.nodata = {} THEN 0 ELSE CHOOSE v \in r.nodata : TRUE

\* src.read(1, window=w, boundless=True): cells outside the raster are filled
ReadWindow(r, w) ==
    LET f(i, j) ==
            LET row == w.row_off + i
                col == w.col_off + j
            IN IF row >= 0 /\ row < r.height /\ col >= 0 /\ col < r.width
               THEN r.px[<<row, col>>]
               ELSE FillValue(r)
    IN Block(w.height, w.width, [p \in Cells(w.height, w.width) |-> f(p[1], p[2])])

\* Window(...) and src.read for a window whose extent is not positive, which
\* happens for a negative pad_size only: a negative width or height is
\* refused; a read of no columns or no rows either raises or gives an empty
\* array
ReadOutcomes(w) ==
    IF w.width < 0 \/ w.height < 0 THEN {"raises"}
    ELSE IF w.width = 0 \/ w.height = 0 THEN {"raises", "empty"}
    ELSE {"array"}

\* dst.write(a, 1, window=w) with a of the window's shape
SameShape(a, w) == a.rows = w.height /\ a.cols = w.width
InWindow(w, p) == /\ w.row_off <= p[1] /\ p[1] < w.row_off + w.height
                  /\ w.col_off <= p[2] /\ p[2] < w.col_off + w.width
\* the array cell a raster pixel of the window takes its value from: the
\* same cell when the shapes agree, the nearest cell of the rescaled array
\* otherwise
SourceCell(a, w, p) ==
    <<((2 * (p[1] - w.row_off) + 1) * a.rows) \div (2 * w.height),
      ((2 * (p[2] - w.col_off) + 1) * a.cols) \div (2 * w.width)>>
WritePixelsAfterLeft(d, a, w) ==
    [p \in DOMAIN d |->
        IF InWindow(w, p) /\ (w.col_off = 0 \/ written[<<p[1], w.col_off - 1>>] > 0)
        THEN a.at[SourceCell(a, w, p)] ELSE d[p]]
WritePixels(d, a, w) ==
    [p \in DOMAIN d |-> IF InWindow(w, p) THEN a.at[SourceCell(a, w, p)] ELSE d[p]]
CountWrite(n, w) ==
    [p \in DOMAIN n |-> IF InWindow(w, p) THEN n[p] + 1 ELSE n[p]]

\* dst.write with an array of another shape than the window: rasterio either
\* refuses it (write_mode "raise") or lets GDAL rescale the array into the
\* window ("rescale"), which fails for an empty array; both are modelled
WriteFails(a, w) ==
    /\ ~SameShape(a, w)
    /\ write_mode = "raise" \/ a.rows = 0 \/ a.cols = 0

\* ---------------------------------------------------------------- inputs
PassStats == {"mean", "sum", "max", "majority", "mode"}
NodataChoices == {{}, {0}}

Pattern(width, row, col) == ((row * width + col) % MaxVal) + 1
Raster(width, height, bw, bh, nodata, nd_at) ==
    [width |-> width, height |-> height, block_w |-> bw, block_h |-> bh,
     nodata |-> nodata,
     px |-> [p \in Cells(height, width) |->
                IF nodata # {} /\ (nd_at = "all" \/ (nd_at = "first" /\ p = <<0, 0>>))
                THEN FillValue([nodata |-> nodata])
                ELSE Pattern(width, p[1], p[2])]]

\* the 10 x 10 raster of 5.0 with NoData at (0, 0), stored as one block
ExampleRaster ==
    [width |-> 10, height |-> 10, block_w |-> 10, block_h |-> 10, nodata |-> {0},
     px |-> [p \in Cells(10, 10) |-> IF p = <<0, 0>> THEN 0 ELSE 5]]

\* a 4 x 4 raster in 2 x 2 blocks whose NoData is 0 and whose one valid
\* pixel, at (1, 1), holds the value the output uses as NoData
SentinelRaster ==
    [width |-> 4, height |-> 4, block_w |-> 2, block_h |-> 2, nodata |-> {0},
     px |-> [p \in Cells(4, 4) |-> IF p = <<1, 1>> THEN OUTPUT_NODATA ELSE 0]]

Rasters ==
    {Raster(w, h, bw, bh, nd, at) :
        w \in 1..MaxDim, h \in 1..MaxDim,
        bw \in 1..MaxBlock, bh \in 1..MaxBlock,
        nd \in NodataChoices, at \in {"none", "first", "all"}}
    \cup {ExampleRaster, SentinelRaster}

UnitIdle == u_vals = <<>>
ReplaceIdle ==
    /\ tile_size = 0 /\ value_to_replace = 0 /\ src1 = <<>> /\ src2 = <<>>
    /\ printed = "" /\ i_off = 0 /\ j_off = 0
MaskIdle ==
    /\ ds = <<>> /\ block_x = 0 /\ block_y = 0 /\ total_blocks = 0
    /\ pbar_n = 0 /\ y_off = 0 /\ x_off = 0
FirstCall == run = 1
ProbIdle ==
    /\ tiff_list = <<>> /\ pixel_value_of_phenomena = 0
    /\ total_occurrences = <<>> /\ idx = 0 /\ p_blk = 0
ConvertIdle ==
    /\ cv_src = <<>> /\ band_mins = <<>> /\ band_maxs = <<>>
    /\ band_data = EmptyBlock /\ data_block = EmptyBlock
    /\ ci_off = 0 /\ cj_off = 0
PolyIdle ==
    /\ poly_src = <<>> /\ geometries = {} /\ dtype = "" /\ nodata_value = 0
    /\ poly_blk = 0
ResampleIdle ==
    /\ rs_src = <<>> /\ target_gsd = 0 /\ resampling_method = ""
    /\ block_size = <<>> /\ row_start = 0 /\ col_start = 0
FocalIdle ==
    /\ entry = "" /\ kernel_size = 0 /\ stat = "" /\ src = <<>>
    /\ write_mode = "" /\ blk = 0 /\ arr = EmptyBlock /\ filtered_arr = EmptyBlock

Init ==
    /\ entry \in {"main", "direct"}
    /\ kernel_size \in (-MaxKernel)..MaxKernel
    /\ stat \in PassStats
    /\ src \in Rasters
    /\ write_mode \in {"raise", "rescale"}
    /\ pc = IF entry = "main" THEN "main" ELSE "open"
    /\ err = ""
    /\ dst_created = FALSE
    /\ dst = <<>>
    /\ written = <<>>
    /\ blk = 0
    /\ arr = EmptyBlock
    /\ filtered_arr = EmptyBlock
    /\ writes = <<>>
    /\ UnitIdle /\ ReplaceIdle /\ MaskIdle
    /\ FirstCall /\ ProbIdle /\ ConvertIdle /\ PolyIdle /\ ResampleIdle

\* --------------------------------------------------------------- actions
\* main(): argparse choices, the oddness check, the call (lines 107-123)
MainEntry ==
    /\ pc = "main"
    /\ IF stat \notin CliChoices
       THEN pc' = "error" /\ err' = "argparse: invalid choice"
       ELSE IF kernel_size % 2 = 0
       THEN pc' = "error" /\ err' = "ValueError: kernel size must be odd"
       ELSE pc' = "open" /\ err' = err
    /\ UNCHANGED <<entry, kernel_size, stat, src, write_mode, dst_created, dst,
                   written, blk, arr, filtered_arr, writes>>
    /\ UNCHANGED notFocal

\* src.nodata is None (line 64)
NodataUnchecked(r) == FALSE
NodataMissing(r) == r.nodata = {}

\* focal_stat_raster: open the input, check NoData, prepare meta (lines 60-70)
OpenInput ==
    /\ pc = "open"
    /\ IF NodataMissing(src)
       THEN pc' = "error" /\ err' = "ValueError: NoData value is not set"
       ELSE pc' = "create" /\ err' = err
    /\ UNCHANGED <<entry, kernel_size, stat, src, write_mode, dst_created, dst,
                   written, blk, arr, filtered_arr, writes>>
    /\ UNCHANGED notFocal

\* rasterio.open(output_raster, "w", **meta) (lines 72-73)
CreateOutput ==
    /\ pc = "create"
    /\ dst_created' = TRUE
    /\ dst' = [p \in Cells(src.height, src.width) |-> FromInt(0)]
    /\ written' = [p \in Cells(src.height, src.width) |-> 0]
    /\ blk' = 0
    /\ pc' = "blocks"
    /\ UNCHANGED <<entry, kernel_size, stat, src, write_mode, err, arr,
                   filtered_arr, writes>>
    /\ UNCHANGED notFocal

\* the body of the block loop for the block numbered k (lines 76-97)
ProcessBlockAt(k) ==
    LET pad_size == kernel_size \div 2
        window == BlockWindow(src, k)
        padded_window == PaddedWindow(src, window, pad_size)
        raw == ReadWindow(src, padded_window)
        out == FilterBlock(raw, src.nodata, kernel_size, stat)
    IN \E outcome \in ReadOutcomes(padded_window) :
        IF outcome = "raises"
        THEN /\ pc' = "error"
             /\ err' = "src.read: window has no extent"
             /\ UNCHANGED <<arr, filtered_arr, writes, dst, written, blk>>
        ELSE
          /\ arr' = raw
          /\ filtered_arr' = out
          /\ writes' = Append(writes, [window |-> window, rows |-> out.rows,
                                       cols |-> out.cols])
          /\ IF WriteFails(out, window)
             THEN /\ pc' = "error"
                  /\ err' = "dst.write: array shape differs from window"
                  /\ UNCHANGED <<dst, written, blk>>
             ELSE /\ dst' = WritePixels(dst, out, window)
                  /\ written' = CountWrite(written, window)
                  /\ blk' = blk + 1
                  /\ UNCHANGED <<pc, err>>

\* one iteration of the block loop (lines 75-97)
ProcessBlock ==
    /\ pc = "blocks"
    /\ blk < NumBlocks(src)
    /\ ProcessBlockAt(blk)
    /\ UNCHANGED <<entry, kernel_size, stat, src, write_mode, dst_created>>
    /\ UNCHANGED notFocal

\* The loop of lines 75-97 reads no flag and the function takes none: the
\* only way to ask a running pass to stop is the interpreter's
\* KeyboardInterrupt, raised wherever the loop body happens to be, before
\* the read of line 85 or between that read and the write of line 97.
Interrupt ==
    /\ pc = "blocks"
    /\ blk < NumBlocks(src)
    /\ \E landed \in {"before read", "after read"} :
          LET padded_window == PaddedWindow(src, BlockWindow(src, blk),
                                            kernel_size \div 2)
          IN arr' = IF landed = "before read"
                       \/ ReadOutcomes(padded_window) = {"raises"}
                    THEN arr
                    ELSE ReadWindow(src, padded_window)
    /\ pc' = "error"
    /\ err' = "KeyboardInterrupt"
    /\ UNCHANGED <<entry, kernel_size, stat, src, write_mode, dst_created, dst,
                   written, blk, filtered_arr, writes>>
    /\ UNCHANGED notFocal

\* the loop is exhausted, both rasters are closed, the message is printed
\* (line 99)
Finish ==
    /\ pc = "blocks"
    /\ blk = NumBlocks(src)
    /\ pc' = "done"
    /\ UNCHANGED <<entry, kernel_size, stat, src, write_mode, err, dst_created,
                   dst, written, blk, arr, filtered_arr, writes>>
    /\ UNCHANGED notFocal

Next ==
    \/ MainEntry \/ OpenInput \/ CreateOutput \/ ProcessBlock \/ Interrupt
    \/ Finish

Spec == Init /\ [][Next]_vars

\* ------------------------------------------- focal_stat on a single window
\* One call of lines 88-94 on a buffer that holds exactly one window: the
\* valid values u_vals in the cells off, off + step, off + 2 * step, ... (row
\* major), the NoData value nd in every other cell.
SeqsUpTo(n, S) == UNION {[1..m -> S] : m \in 0..n}

WindowSide(k) == 2 * (k \div 2) + 1
UnitBuffer(k, vals, off, step, nd) ==
    LET side == WindowSide(k)
        f(i, j) == LET q == i * side + j - off
                   IN IF q >= 0 /\ q % step = 0 /\ q \div step < Len(vals)
                      THEN vals[(q \div step) + 1]
                      ELSE nd
    IN Block(side, side, [p \in Cells(side, side) |-> f(p[1], p[2])])
\* placements tried: from the first cell, up to the last cell, every other cell
Placements(k, n) ==
    LET area == WindowSide(k) * WindowSide(k)
    IN {<<0, 1>>, <<area - n, 1>>} \cup
       (IF 2 * n - 1 <= area THEN {<<0, 2>>} ELSE {})

InitUnit ==
    /\ entry = "unit"
    /\ kernel_size = 3
    /\ stat \in StatNames
    /\ u_vals \in SeqsUpTo(MaxValid, 1..MaxVal)
    /\ src = Raster(1, 1, 1, 1, {0}, "none")
    /\ write_mode = "raise"
    /\ pc = "unit"
    /\ err = ""
    /\ dst_created = FALSE
    /\ dst = <<>>
    /\ written = <<>>
    /\ blk = 0
    /\ arr = EmptyBlock
    /\ filtered_arr = EmptyBlock
    /\ writes = <<>>
    /\ ReplaceIdle /\ MaskIdle
    /\ FirstCall /\ ProbIdle /\ ConvertIdle /\ PolyIdle /\ ResampleIdle

UnitCall ==
    /\ pc = "unit"
    /\ \E nd \in {0, OUTPUT_NODATA} :
       \E pl \in Placements(kernel_size, Len(u_vals)) :
          /\ arr' = UnitBuffer(kernel_size, u_vals, pl[1], pl[2], nd)
          /\ filtered_arr' = FilterBlock(arr', {nd}, kernel_size, stat)
    /\ pc' = "unit_done"
    /\ UNCHANGED <<entry, kernel_size, stat, src, write_mode, err, dst_created,
                   dst, written, blk, writes>>
    /\ UNCHANGED notFocal

NextUnit == UnitCall

SpecUnit == InitUnit /\ [][NextUnit]_vars

\* ---------------------------------------------------- replace_pixel_value
\* Window(j, i, min(tile_size, width - j), min(tile_size, height - i)), line 42
TileWindowUnclipped(t, width, height, row, col) == Window(col, row, t, t)
TileWindowTransposed(t, width, height, row, col) ==
    Window(row, col, Min(t, width - col), Min(t, height - row))
TileWindow(t, width, height, row, col) ==
    Window(col, row, Min(t, width - col), Min(t, height - row))

ReplaceBlockKeepSource(s1, s2, v, w) ==
    Block(w.height, w.width,
          [p \in Cells(w.height, w.width) |->
              s1.px[<<w.row_off + p[1], w.col_off + p[2]>>]])
\* data_source[replace_mask] = data_reference[replace_mask] (lines 45-52)
ReplaceBlock(s1, s2, v, w) ==
    LET f(r, c) ==
            LET p == <<w.row_off + r, w.col_off + c>>
            IN IF s1.px[p] = v THEN s2.px[p] ELSE s1.px[p]
    IN Block(w.height, w.width, [p \in Cells(w.height, w.width) |-> f(p[1], p[2])])

TileRaster(width, height, crs, shift) ==
    [width |-> width, height |-> height, crs |-> crs,
     px |-> [p \in Cells(height, width) |-> Pattern(width, p[1] + shift, p[2])]]

InitReplace ==
    /\ pc = "r_open"
    /\ tile_size \in (-1..MaxTile) \cup {DEFAULT_TILE_SIZE}
    /\ value_to_replace \in 1..2
    /\ \E w \in 1..MaxDim, h \in 1..MaxDim, dw \in 0..1,
          crs \in {"EPSG:4326", "EPSG:32643"} :
          /\ src1 = TileRaster(w, h, "EPSG:4326", 0)
          /\ src2 = TileRaster(w + dw, h, crs, 1)
    /\ printed = ""
    /\ i_off = 0
    /\ j_off = 0
    /\ err = ""
    /\ dst_created = FALSE
    /\ dst = <<>>
    /\ written = <<>>
    /\ writes = <<>>
    /\ FocalIdle /\ UnitIdle /\ MaskIdle
    /\ FirstCall /\ ProbIdle /\ ConvertIdle /\ PolyIdle /\ ResampleIdle

\* open both inputs, compare shape and CRS (lines 24-30); a ValueError is
\* caught at line 62 and printed
ReplaceOpen ==
    /\ pc = "r_open"
    /\ IF <<src1.height, src1.width>> # <<src2.height, src2.width>>
       THEN /\ printed' = "Error: Input files do not have the same dimensions!"
            /\ pc' = "r_returned"
       ELSE IF src1.crs # src2.crs
       THEN /\ printed' = "Error: Input files do not have the same CRS!"
            /\ pc' = "r_returned"
       ELSE /\ printed' = printed
            /\ pc' = "r_create"
    /\ UNCHANGED <<err, dst_created, dst, written, writes>>
    /\ UNCHANGED <<tile_size, value_to_replace, src1, src2, i_off, j_off>>
    /\ UNCHANGED notReplace

\* create the output raster (lines 33-36)
ReplaceCreate ==
    /\ pc = "r_create"
    /\ dst_created' = TRUE
    /\ dst' = [p \in Cells(src1.height, src1.width) |-> 0]
    /\ written' = [p \in Cells(src1.height, src1.width) |-> 0]
    /\ i_off' = 0
    /\ j_off' = 0
    /\ pc' = "r_loop"
    /\ UNCHANGED <<err, writes>>
    /\ UNCHANGED <<tile_size, value_to_replace, src1, src2, printed>>
    /\ UNCHANGED notReplace

\* range(0, src1.height, 0) raises ValueError (line 39), caught at line 62
ReplaceRangeError ==
    /\ pc = "r_loop"
    /\ tile_size = 0
    /\ printed' = "Error: range() arg 3 must not be zero"
    /\ pc' = "r_returned"
    /\ UNCHANGED <<err, dst_created, dst, written, writes>>
    /\ UNCHANGED <<tile_size, value_to_replace, src1, src2, i_off, j_off>>
    /\ UNCHANGED notReplace

\* the body of the tile loops for the tile at row i, column j (lines 41-55)
ReplaceTileAt(i, j) ==
    LET window == TileWindow(tile_size, src1.width, src1.height, i, j)
        data_source == ReplaceBlock(src1, src2, value_to_replace, window)
    IN /\ dst' = WritePixels(dst, data_source, window)
       /\ written' = CountWrite(written, window)
       /\ writes' = Append(writes, [window |-> window,
                                    rows |-> data_source.rows,
                                    cols |-> data_source.cols])

\* one tile of the loops of lines 39-55
ReplaceTile ==
    /\ pc = "r_loop"
    /\ tile_size > 0
    /\ i_off < src1.height
    /\ ReplaceTileAt(i_off, j_off)
    /\ IF j_off + tile_size < src1.width
       THEN j_off' = j_off + tile_size /\ i_off' = i_off
       ELSE j_off' = 0 /\ i_off' = i_off + tile_size
    /\ UNCHANGED <<pc, err, dst_created>>
    /\ UNCHANGED <<tile_size, value_to_replace, src1, src2, printed>>
    /\ UNCHANGED notReplace

\* a read (lines 45-46) or the write (line 55) of the current tile fails in
\* the I/O library: the exception leaves the loops and both with blocks and
\* is caught by the handler of line 59 (RasterioIOError) or of line 65 (any
\* other exception class), which prints it; the function then returns
TileIOErrors == {"RasterioIOError: read failed", "RasterioIOError: write failed"}
ReplaceTileIOError ==
    /\ pc = "r_loop"
    /\ tile_size > 0
    /\ i_off < src1.height
    /\ err' \in TileIOErrors
    /\ printed' \in {"Error opening raster files: I/O error",
                     "An unexpected error occurred: I/O error"}
    /\ pc' = "r_returned"
    /\ UNCHANGED <<dst_created, dst, written, writes>>
    /\ UNCHANGED <<tile_size, value_to_replace, src1, src2, i_off, j_off>>
    /\ UNCHANGED notReplace

\* the loops are exhausted (at once when tile_size < 0): line 57
ReplaceFinish ==
    /\ pc = "r_loop"
    /\ tile_size < 0 \/ (tile_size > 0 /\ i_off >= src1.height)
    /\ printed' = "Processing complete!"
    /\ pc' = "r_returned"
    /\ UNCHANGED <<err, dst_created, dst, written, writes>>
    /\ UNCHANGED <<tile_size, value_to_replace, src1, src2, i_off, j_off>>
    /\ UNCHANGED notReplace

\* ------------------------------------------------------------ create_mask
\* get_raster_info: theoretical range of uint8 (get_raster_info.py line 34)
UINT8_MIN == 0
UINT8_MAX == 255

\* band values of the inputs: a mid-range value and both ends of the range
MaskValue(kind, b, row, col) ==
    CASE kind = "valid" -> 7
      [] kind = "min" -> UINT8_MIN
      [] kind = "max" -> UINT8_MAX
      [] OTHER -> <<UINT8_MIN, 7, UINT8_MAX>>[((row + col + b) % 3) + 1]

Dataset(xsize, ysize, count, nodata, bx, by, kind) ==
    [xsize |-> xsize, ysize |-> ysize, count |-> count, nodata |-> nodata,
     bit_min |-> UINT8_MIN, bit_max |-> UINT8_MAX,
     internal_block_x |-> bx, internal_block_y |-> by,
     px |-> [q \in (1..count) \X Cells(ysize, xsize) |->
                MaskValue(kind, q[1], q[2][1], q[2][2])]]

\* blocks of the loops of lines 105-109
MaskWindow(bx, by, xsize, ysize, row, col) ==
    Window(col, row, Min(bx, xsize - col), Min(by, ysize - row))

\* the mask logic of lines 121-143 for one pixel: 1 valid, 0 invalid
MaskPixel(d, row, col) ==
    LET v(b) == d.px[<<b, <<row, col>>>>]
    IN IF d.nodata # {}
       THEN IF \E b \in 1..d.count : v(b) \in d.nodata THEN 0 ELSE 1
       ELSE IF d.count >= 4
       THEN IF v(4) = d.bit_min THEN 0 ELSE 1
       ELSE IF \A b \in 1..d.count : v(b) = d.bit_min \/ v(b) = d.bit_max
            THEN 0 ELSE 1

MaskBlockOf(d, w) ==
    LET f(r, c) == MaskPixel(d, w.row_off + r, w.col_off + c)
    IN Block(w.height, w.width, [p \in Cells(w.height, w.width) |-> f(p[1], p[2])])

InitMask ==
    /\ pc = "m_open"
    /\ ds \in {Dataset(w, h, n, nd, bx, by, kind) :
                  w \in 1..MaxDim, h \in 1..MaxDim, n \in {1, 3, 4},
                  nd \in NodataChoices, bx \in 1..MaxTile, by \in 1..MaxTile,
                  kind \in {"valid", "min", "mixed"}}
    /\ block_x = 0
    /\ block_y = 0
    /\ total_blocks = 0
    /\ pbar_n = 0
    /\ y_off = 0
    /\ x_off = 0
    /\ err = ""
    /\ dst_created = FALSE
    /\ dst = <<>>
    /\ written = <<>>
    /\ writes = <<>>
    /\ FocalIdle /\ UnitIdle /\ ReplaceIdle
    /\ FirstCall /\ ProbIdle /\ ConvertIdle /\ PolyIdle /\ ResampleIdle

\* open the input, read its info, create the output mask (lines 19-75)
MaskCreate ==
    /\ pc = "m_open"
    /\ dst_created' = TRUE
    /\ dst' = [p \in Cells(ds.ysize, ds.xsize) |-> 0]
    /\ written' = [p \in Cells(ds.ysize, ds.xsize) |-> 0]
    /\ pc' = "m_blocksize"
    /\ UNCHANGED <<err, writes>>
    /\ UNCHANGED maskOnly
    /\ UNCHANGED notMask

\* block size selection and the progress bar (lines 80-100)
MaskChooseBlock ==
    /\ pc = "m_blocksize"
    /\ IF ds.internal_block_y = 1 \/ ds.internal_block_x = ds.xsize
       THEN block_x' = DEFAULT_BLOCK /\ block_y' = DEFAULT_BLOCK
       ELSE block_x' = ds.internal_block_x /\ block_y' = ds.internal_block_y
    /\ total_blocks' = CeilDiv(ds.ysize, block_y') * CeilDiv(ds.xsize, block_x')
    /\ pbar_n' = 0
    /\ y_off' = 0
    /\ x_off' = 0
    /\ pc' = "m_loop"
    /\ UNCHANGED <<err, dst_created, dst, written, writes>>
    /\ UNCHANGED ds
    /\ UNCHANGED notMask

\* one block of the loops of lines 105-152
MaskBlock ==
    /\ pc = "m_loop"
    /\ y_off < ds.ysize
    /\ LET window == MaskWindow(block_x, block_y, ds.xsize, ds.ysize, y_off, x_off)
           mask_block == MaskBlockOf(ds, window)
       IN /\ dst' = WritePixels(dst, mask_block, window)
          /\ written' = CountWrite(written, window)
          /\ writes' = Append(writes, [window |-> window,
                                       rows |-> mask_block.rows,
                                       cols |-> mask_block.cols])
    /\ pbar_n' = pbar_n + 1
    /\ IF x_off + block_x < ds.xsize
       THEN x_off' = x_off + block_x /\ y_off' = y_off
       ELSE x_off' = 0 /\ y_off' = y_off + block_y
    /\ UNCHANGED <<pc, err, dst_created>>
    /\ UNCHANGED <<ds, block_x, block_y, total_blocks>>
    /\ UNCHANGED notMask

\* close the progress bar, flush, return output_mask (lines 154-172)
MaskFinish ==
    /\ pc = "m_loop"
    /\ y_off >= ds.ysize
    /\ pc' = "m_returned"
    /\ UNCHANGED <<err, dst_created, dst, written, writes>>
    /\ UNCHANGED maskOnly
    /\ UNCHANGED notMask

\* ------------------------------------------------- the explicit tile loops
InitTiles == InitReplace \/ InitMask

NextTiles ==
    \/ ReplaceOpen \/ ReplaceCreate \/ ReplaceRangeError \/ ReplaceTile
    \/ ReplaceTileIOError \/ ReplaceFinish
    \/ MaskCreate \/ MaskChooseBlock \/ MaskBlock \/ MaskFinish

SpecTiles == InitTiles /\ [][NextTiles]_vars

\* ======================================================================
\* Claims
\* ======================================================================
InReplace == pc \in {"r_open", "r_create", "r_loop", "r_returned"}
InMask == pc \in {"m_open", "m_blocksize", "m_loop", "m_returned"}
RasterWidth == IF InReplace THEN src1.width ELSE ds.xsize
RasterHeight == IF InReplace THEN src1.height ELSE ds.ysize
PassComplete ==
    \/ pc = "r_returned" /\ printed = "Processing complete!"
    \/ pc = "m_returned"
Covering(p) == {k \in DOMAIN writes : InWindow(writes[k].window, p)}

\* C1: in the tile loops of replace_pixel_value (tile_size >= 1) and of
\* create_mask, every window written has positive width and height and lies
\* inside the raster, no pixel lies in two windows, and when the pass has
\* completed every pixel lies in exactly one window.
C1_TilesPartitionGrid ==
    (dst_created /\ (InMask \/ (InReplace /\ tile_size >= 1))) =>
        /\ \A k \in DOMAIN writes :
              LET w == writes[k].window
              IN /\ w.width > 0 /\ w.height > 0
                 /\ w.col_off >= 0 /\ w.row_off >= 0
                 /\ w.col_off + w.width <= RasterWidth
                 /\ w.row_off + w.height <= RasterHeight
        /\ \A p \in Cells(RasterHeight, RasterWidth) :
              /\ Cardinality(Covering(p)) <= 1
              /\ written[p] = Cardinality(Covering(p))
              /\ PassComplete => Cardinality(Covering(p)) = 1

\* a completed replace_pixel_value pass of several tiles per row and column
\* whose last tile is clipped in both directions
C1_Witness ==
    /\ pc = "r_returned" /\ printed = "Processing complete!"
    /\ tile_size >= 1
    /\ Len(writes) >= 4
    /\ writes[Len(writes)].window.width < tile_size
    /\ writes[Len(writes)].window.height < tile_size

\* C2 (as claimed): in focal_stat_raster with an odd kernel_size >= 3, every
\* array handed to dst.write has the shape of its block window, no write
\* fails, and when the pass is done every output pixel was written once.
C2_WriteHasWindowShape ==
    (kernel_size % 2 = 1 /\ kernel_size >= 3) =>
        /\ \A k \in DOMAIN writes :
              /\ writes[k].rows = writes[k].window.height
              /\ writes[k].cols = writes[k].window.width
        /\ pc = "done" => \A p \in DOMAIN written : written[p] = 1

\* the valid input values at raster distance <= rad of pixel p, positions
\* outside the raster and NoData pixels counting as missing
Neighbourhood(r, rad, p) ==
    LET side == 2 * rad + 1
        cell(k) == <<p[1] - rad + ((k - 1) \div side), p[2] - rad + ((k - 1) % side)>>
        inside(q) == q[1] >= 0 /\ q[1] < r.height /\ q[2] >= 0 /\ q[2] < r.width
        all == [k \in 1..(side * side) |->
                  IF inside(cell(k)) /\ r.px[cell(k)] \notin r.nodata
                  THEN FromInt(r.px[cell(k)]) ELSE NaN]
    IN SelectSeq(all, NotNaN)
ExpectedFocal(r, st, rad, p) ==
    LET v == Neighbourhood(r, rad, p)
    IN IF v = <<>> THEN FromInt(OUTPUT_NODATA) ELSE Reduce(st, v)

\* C3 (as claimed): with an odd kernel_size = 2r+1 and an implemented
\* reducer, the value written at each raster position is the reducer of
\* the valid input values within distance r of that position.
C3_WrittenValueIsFocalStat ==
    (kernel_size % 2 = 1 /\ stat \in Implemented /\ dst_created) =>
        \A p \in DOMAIN dst :
            written[p] > 0 =>
                dst[p] = ExpectedFocal(src, stat, kernel_size \div 2, p)

\* ---- focal_stat on one window
UnitOut == filtered_arr.at[<<0, 0>>]
UnitValid == [k \in 1..Len(u_vals) |-> FromInt(u_vals[k])]
UnitMissing == arr.rows * arr.cols - Len(u_vals)

\* C4: the output pixel of a window is the reducer of its valid values
\* alone, whatever the positions of the missing cells and the NoData value
\* under them; a window without valid values gives the output NoData value
\* -9999; the call returns one pixel in either case.
C4_OnlyValidValuesCount ==
    pc = "unit_done" =>
        /\ filtered_arr.rows = 1 /\ filtered_arr.cols = 1
        /\ UnitOut = IF u_vals = <<>> \/ stat \notin Implemented
                     THEN FromInt(OUTPUT_NODATA)
                     ELSE Reduce(stat, UnitValid)

\* a window of valid and missing cells whose valid values do not start at
\* the first cell, reduced with mean
C4_Witness ==
    /\ pc = "unit_done"
    /\ stat = "mean"
    /\ Len(u_vals) >= 2 /\ UnitMissing >= 1
    /\ arr.at[<<0, 0>>] \notin 1..MaxVal
    /\ UnitOut = Reduce("mean", UnitValid)

\* reference definitions over integer values
RECURSIVE IntSum(_)
IntSum(v) == IF v = <<>> THEN 0 ELSE v[1] + IntSum(Tail(v))
Squares(v) == [k \in 1..Len(v) |-> v[k] * v[k]]
ValuesOf(v) == {v[k] : k \in DOMAIN v}
CountOf(v, a) == Cardinality({k \in DOMAIN v : v[k] = a})
\* the k-th smallest value
OrderStat(v, k) ==
    CHOOSE a \in ValuesOf(v) :
        /\ Cardinality({n \in DOMAIN v : v[n] < a}) < k
        /\ Cardinality({n \in DOMAIN v : v[n] <= a}) >= k
RefMin(v) == CHOOSE a \in ValuesOf(v) : \A b \in ValuesOf(v) : a <= b
RefMax(v) == CHOOSE a \in ValuesOf(v) : \A b \in ValuesOf(v) : a >= b
RefMean(v) == Rat(IntSum(v), Len(v))
RefMedian(v) ==
    LET n == Len(v)
    IN IF n % 2 = 1 THEN FromInt(OrderStat(v, (n + 1) \div 2))
       ELSE Rat(OrderStat(v, n \div 2) + OrderStat(v, (n \div 2) + 1), 2)
\* population variance: E[x^2] - E[x]^2
RefVariance(v) ==
    Rat(Len(v) * IntSum(Squares(v)) - IntSum(v) * IntSum(v), Len(v) * Len(v))
\* s / 1000 with s the largest integer whose square is <= 10^6 * variance
IsRefStd(x, v) ==
    LET var == RefVariance(v)
        s == (x[1] * 1000) \div x[2]
    IN /\ (1000 * x[1]) % x[2] = 0
       /\ s >= 0
       /\ s * s * var[2] <= 1000000 * var[1]
       /\ (s + 1) * (s + 1) * var[2] > 1000000 * var[1]
IsReference(st, x, v) ==
    CASE st = "mean" -> x = RefMean(v)
      [] st = "median" -> x = RefMedian(v)
      [] st = "min" -> x = FromInt(RefMin(v))
      [] st = "max" -> x = FromInt(RefMax(v))
      [] st = "sum" -> x = FromInt(IntSum(v))
      [] st = "range" -> x = FromInt(RefMax(v) - RefMin(v))
      [] st = "variance" -> x = RefVariance(v)
      [] st = "std" -> IsRefStd(x, v)
OneToFour(st) ==
    CASE st = "mean" -> <<5, 2>>
      [] st = "median" -> <<5, 2>>
      [] st = "min" -> <<1, 1>>
      [] st = "max" -> <<4, 1>>
      [] st = "sum" -> <<10, 1>>
      [] st = "range" -> <<3, 1>>
      [] st = "variance" -> <<5, 4>>
      [] st = "std" -> <<559, 500>>

\* C5: on every non-empty collection of valid values each implemented
\* reducer equals its reference definition (median averages the two middle
\* order statistics, variance and std divide by N); for the values 1, 2, 3,
\* 4 in any order: mean 2.5, median 2.5, min 1, max 4, sum 10, range 3,
\* variance 1.25, std 1.118.
C5_ReducersMatchReference ==
    (pc = "unit_done" /\ stat \in Implemented /\ u_vals # <<>>) =>
        /\ IsReference(stat, UnitOut, u_vals)
        /\ (Len(u_vals) = 4 /\ ValuesOf(u_vals) = 1..4) => UnitOut = OneToFour(stat)

\* the window with valid values 1, 2, 3, 4 reduced with variance
C5_Witness ==
    /\ pc = "unit_done"
    /\ stat = "variance"
    /\ u_vals = <<1, 2, 3, 4>>
    /\ UnitOut = <<5, 4>>

\* most / least frequent value, the smallest value winning ties
Majority(v) ==
    CHOOSE a \in ValuesOf(v) :
        \A b \in ValuesOf(v) :
            \/ CountOf(v, a) > CountOf(v, b)
            \/ CountOf(v, a) = CountOf(v, b) /\ a <= b
Minority(v) ==
    CHOOSE a \in ValuesOf(v) :
        \A b \in ValuesOf(v) :
            \/ CountOf(v, a) < CountOf(v, b)
            \/ CountOf(v, a) = CountOf(v, b) /\ a <= b

\* C6 (as claimed): with stat majority, minority or unique_count the output
\* pixel of a window with valid values is the most frequent value, the
\* least frequent value (smallest value on ties) or the number of distinct
\* values.
C6_MajorityMinorityUniqueCount ==
    (pc = "unit_done" /\ u_vals # <<>>) =>
        /\ stat = "majority" => UnitOut = FromInt(Majority(u_vals))
        /\ stat = "minority" => UnitOut = FromInt(Minority(u_vals))
        /\ stat = "unique_count" => UnitOut = FromInt(Cardinality(ValuesOf(u_vals)))

\* C7 (as claimed): with an even kernel_size the call fails before the
\* output raster is created and before any block is read or written.
C7_EvenKernelRejected ==
    kernel_size % 2 = 0 =>
        /\ ~dst_created
        /\ writes = <<>>

\* C8 (as claimed): with a stat name that has no reducer the call fails
\* before the output raster is created and never ends in success.
C8_UnknownStatRejected ==
    stat \notin Implemented =>
        /\ ~dst_created
        /\ writes = <<>>
        /\ pc # "done"

\* C9: when the input raster declares no NoData value, the output raster is
\* never created and no block is read, transformed or written; the call
\* ends with an error.
C9_NoDataPreflight ==
    src.nodata = {} =>
        /\ ~dst_created
        /\ writes = <<>>
        /\ arr = EmptyBlock /\ filtered_arr = EmptyBlock
        /\ blk = 0
        /\ pc \in {"main", "open", "error"}

\* a direct call on a raster without NoData, ended by the ValueError of
\* line 65
C9_Witness ==
    /\ src.nodata = {}
    /\ entry = "direct"
    /\ pc = "error"
    /\ err = "ValueError: NoData value is not set"
    /\ ~dst_created

\* C10 (as claimed): replace_pixel_value with tile_size <= 0, on inputs of
\* equal shape and CRS, never creates the output raster and never returns
\* normally.
C10_NonPositiveTileRejected ==
    (/\ InReplace
     /\ tile_size <= 0
     /\ <<src1.height, src1.width>> = <<src2.height, src2.width>>
     /\ src1.crs = src2.crs) =>
        /\ ~dst_created
        /\ pc # "r_returned"

\* ------------------------------------------------------------ tile order
TileStepX == IF InReplace THEN tile_size ELSE block_x
TileStepY == IF InReplace THEN tile_size ELSE block_y
RowMajorBefore(a, b) ==
    \/ a.row_off < b.row_off
    \/ a.row_off = b.row_off /\ a.col_off < b.col_off
\* the k-th window of a row-major walk, from the dimensions and steps alone
KthWindow(k) ==
    LET per_row == CeilDiv(RasterWidth, TileStepX)
        row == ((k - 1) \div per_row) * TileStepY
        col == ((k - 1) % per_row) * TileStepX
    IN Window(col, row, Min(TileStepX, RasterWidth - col),
              Min(TileStepY, RasterHeight - row))

\* C11: the tile loops of create_mask and of replace_pixel_value (tile_size
\* >= 1) visit the tiles in row-major order: of two tiles the earlier one has
\* the smaller row_off, or the same row_off and the smaller col_off; and the
\* k-th tile visited is fixed by the raster dimensions and the tile size.
C11_TilesInRowMajorOrder ==
    (dst_created /\ (InMask \/ (InReplace /\ tile_size >= 1))) =>
        /\ \A k \in DOMAIN writes : \A l \in DOMAIN writes :
              k < l => RowMajorBefore(writes[k].window, writes[l].window)
        /\ \A k \in DOMAIN writes : writes[k].window = KthWindow(k)

\* a completed create_mask pass over at least two rows of two blocks each
C11_Witness ==
    /\ pc = "m_returned"
    /\ Len(writes) >= 4
    /\ writes[2].window.row_off = 0
    /\ writes[Len(writes)].window.row_off > 0
    /\ writes[Len(writes)].window.col_off > 0

\* --------------------------------------------------------------- progress
MaskLoopEntered == pc \in {"m_loop", "m_returned"}

\* C15: the progress counter of create_mask is 0 when the block loop starts,
\* is one more after each block written (so it counts the blocks written),
\* never decreases, never exceeds total_blocks = ceil(ysize / block_y) *
\* ceil(xsize / block_x), and equals total_blocks exactly when the loop has
\* no block left; the mask written is the one computed from the input pixels
\* alone, whatever the counter.
C15_ProgressCountsBlocks ==
    /\ [](InMask =>
            /\ pbar_n = Len(writes)
            /\ pbar_n >= 0
            /\ MaskLoopEntered =>
                  /\ total_blocks =
                        CeilDiv(ds.ysize, block_y) * CeilDiv(ds.xsize, block_x)
                  /\ pbar_n <= total_blocks
                  /\ (pbar_n = total_blocks) <=> (y_off >= ds.ysize)
                  /\ \A p \in DOMAIN dst :
                        written[p] = 1 =>
                            dst[p] = MaskPixel(ds, p[1], p[2])
            /\ pc = "m_returned" => pbar_n = total_blocks)
    /\ [][InMask =>
            /\ pbar_n' >= pbar_n
            /\ (writes' # writes) <=> (pbar_n' = pbar_n + 1)]_vars

\* a completed create_mask pass of six blocks or more, all of them counted
C15_Witness ==
    /\ pc = "m_returned"
    /\ total_blocks >= 6
    /\ pbar_n = total_blocks

\* ------------------------------------------------------------ replacement
ReplaceComplete ==
    /\ pc = "r_returned" /\ printed = "Processing complete!"
    /\ tile_size >= 1

\* C19: after a completed replace_pixel_value pass (band 1, tile_size >= 1)
\* every output pixel holds the reference pixel where the source pixel
\* equals value_to_replace and the source pixel everywhere else; so the
\* output holds value_to_replace only where the reference holds it too.
C19_ReplacedFromReference ==
    ReplaceComplete =>
        \A p \in Cells(src1.height, src1.width) :
            /\ dst[p] = IF src1.px[p] = value_to_replace
                        THEN src2.px[p] ELSE src1.px[p]
            /\ dst[p] = value_to_replace =>
                  /\ src1.px[p] = value_to_replace
                  /\ src2.px[p] = value_to_replace

\* a completed pass of several tiles with a replaced pixel whose reference
\* differs, and a pixel left as the source had it
C19_Witness ==
    /\ ReplaceComplete
    /\ Len(writes) >= 2
    /\ \E p \in Cells(src1.height, src1.width) :
          /\ src1.px[p] = value_to_replace
          /\ src2.px[p] # value_to_replace
          /\ dst[p] = src2.px[p]
    /\ \E q \in Cells(src1.height, src1.width) :
          /\ src1.px[q] # value_to_replace
          /\ dst[q] = src1.px[q]

\* -------------------------------------------------- rasters without NoData
\* C18 (as claimed): when the input of create_mask declares no NoData value,
\* no pixel is treated as missing: every mask pixel written is 1, whatever
\* the band count and the pixel values.
C18_NoNodataMaskAllValid ==
    (InMask /\ ds.nodata = {}) =>
        \A p \in DOMAIN dst : written[p] >= 1 => dst[p] = 1

\* ------------------------------------------------------------- I/O errors
\* C17 (as claimed): when reading or writing a tile fails in
\* replace_pixel_value the pass stops and the failure reaches the caller:
\* the function does not return normally.
C17_TileIOErrorPropagates ==
    (InReplace /\ err \in TileIOErrors) => pc # "r_returned"

\* ----------------------------------------------------------- cancellation
\* the block blk has been read into arr and no write was made for it
TileStartedNotWritten ==
    /\ blk < NumBlocks(src)
    /\ Len(writes) = blk
    /\ arr = ReadWindow(src, PaddedWindow(src, BlockWindow(src, blk),
                                          kernel_size \div 2))

\* C16 (as claimed): a request to stop a focal_stat_raster pass takes effect
\* between tiles only: when the pass has been stopped, no tile is left
\* started (read) without having been written.
C16_CancelledBetweenTiles ==
    (dst_created /\ err = "KeyboardInterrupt") => ~TileStartedNotWritten

\* ======================================================================
\* Tiles taken in any order
\* ======================================================================
\* The loop bodies of focal_stat_raster (lines 76-97) and replace_pixel_value
\* (lines 41-55) applied to the tiles of the pass in an arbitrary order, one
\* tile at a time: every permutation of the tiles, and every interleaving of
\* workers that each run the body on whole tiles, is a behaviour.
MaxPermTiles == 6
MaxPermBlocks == 8

Unprocessed(w) == written[<<w.row_off, w.col_off>>] = 0
TileOrigins(n, t) == {k * t : k \in 0..(CeilDiv(n, t) - 1)}

ProcessAnyBlock ==
    /\ pc = "blocks"
    /\ \E k \in 0..(NumBlocks(src) - 1) :
          /\ Unprocessed(BlockWindow(src, k))
          /\ ProcessBlockAt(k)
    /\ UNCHANGED <<entry, kernel_size, stat, src, write_mode, dst_created>>
    /\ UNCHANGED notFocal

ReplaceAnyTile ==
    /\ pc = "r_loop"
    /\ \E i \in TileOrigins(src1.height, tile_size),
          j \in TileOrigins(src1.width, tile_size) :
          /\ written[<<i, j>>] = 0
          /\ ReplaceTileAt(i, j)
          /\ i_off' = i
          /\ j_off' = j
    /\ UNCHANGED <<pc, err, dst_created>>
    /\ UNCHANGED <<tile_size, value_to_replace, src1, src2, printed>>
    /\ UNCHANGED notReplace

\* every tile has been taken: line 57
ReplaceAllDone ==
    /\ pc = "r_loop"
    /\ \A p \in DOMAIN written : written[p] >= 1
    /\ printed' = "Processing complete!"
    /\ pc' = "r_returned"
    /\ UNCHANGED <<err, dst_created, dst, written, writes>>
    /\ UNCHANGED <<tile_size, value_to_replace, src1, src2, i_off, j_off>>
    /\ UNCHANGED notReplace

InitAnyOrder ==
    \/ /\ Init
       /\ entry = "direct"
       /\ kernel_size >= 1
       /\ kernel_size % 2 = 1
       /\ src.nodata # {}
       /\ NumBlocks(src) <= MaxPermBlocks
    \/ /\ InitReplace
       /\ tile_size >= 1
       /\ CeilDiv(src1.height, tile_size) * CeilDiv(src1.width, tile_size)
             <= MaxPermTiles

NextAnyOrder ==
    \/ OpenInput \/ CreateOutput \/ ProcessAnyBlock \/ Finish
    \/ ReplaceOpen \/ ReplaceCreate \/ ReplaceAnyTile \/ ReplaceAllDone

SpecAnyOrder == InitAnyOrder /\ [][NextAnyOrder]_vars

\* what the pass writes at pixel p, from the inputs, the parameters and the
\* coordinates of the tile that holds p
FocalTileOutput(k) ==
    FilterBlock(ReadWindow(src, PaddedWindow(src, BlockWindow(src, k),
                                             kernel_size \div 2)),
                src.nodata, kernel_size, stat)
ReplaceTileValue(p) ==
    LET i == (p[1] \div tile_size) * tile_size
        j == (p[2] \div tile_size) * tile_size
        window == TileWindow(tile_size, src1.width, src1.height, i, j)
    IN ReplaceBlock(src1, src2, value_to_replace, window).at[<<p[1] - i, p[2] - j>>]
Untouched == IF InReplace THEN 0 ELSE FromInt(0)

C12_FocalWitness ==
    \/ pc = "done"
    \/ /\ pc = "blocks"
       /\ Len(writes) = 2
       /\ RowMajorBefore(writes[2].window, writes[1].window)

MaxRasters == 2

\* the k-th raster of a list: the pattern moved down by k - 1 rows
ProbRaster(width, height, bw, bh, k) ==
    [width |-> width, height |-> height, block_w |-> bw, block_h |-> bh,
     nodata |-> {},
     px |-> [p \in Cells(height, width) |-> Pattern(width, p[1] + k - 1, p[2])]]

\* np.zeros((height, width), dtype=np.int32), line 29
NpZerosOrPrevious(height, width) ==
    IF DOMAIN total_occurrences = Cells(height, width)
    THEN total_occurrences
    ELSE [p \in Cells(height, width) |-> 0]
np_zeros(height, width) == [p \in Cells(height, width) |-> 0]

\* data == pixel_value_of_phenomena, line 43
IsPhenomenonOrAbove(data, pixel_value) == data >= pixel_value
IsPhenomenon(data, pixel_value) == data = pixel_value

InitProb ==
    /\ pc = "p_open"
    /\ \E w \in 1..MaxDim, h \in 1..MaxDim, bw \in 1..MaxBlock,
          bh \in 1..MaxBlock, n \in 1..MaxRasters :
          tiff_list = [k \in 1..n |-> ProbRaster(w, h, bw, bh, k)]
    /\ pixel_value_of_phenomena \in 1..2
    /\ total_occurrences = <<>>
    /\ idx = 0
    /\ p_blk = 0
    /\ err = ""
    /\ dst_created = FALSE
    /\ dst = <<>>
    /\ written = <<>>
    /\ writes = <<>>
    /\ FirstCall
    /\ FocalIdle /\ UnitIdle /\ ReplaceIdle /\ MaskIdle
    /\ ConvertIdle /\ PolyIdle /\ ResampleIdle

\* open the first raster and create the accumulator (lines 22-32)
ProbOpen ==
    /\ pc = "p_open"
    /\ total_occurrences' = np_zeros(tiff_list[1].height, tiff_list[1].width)
    /\ idx' = 0
    /\ p_blk' = 0
    /\ pc' = "p_rasters"
    /\ UNCHANGED <<err, dst_created, dst, written, writes>>
    /\ UNCHANGED <<tiff_list, pixel_value_of_phenomena, run>>
    /\ UNCHANGED notProb

\* one block window of raster idx (lines 38-43); after the last window of a
\* raster the progress line is printed and the next raster is opened
ProbBlock ==
    /\ pc = "p_rasters"
    /\ idx < Len(tiff_list)
    /\ LET r == tiff_list[idx + 1]
           window == BlockWindow(r, p_blk)
       IN /\ total_occurrences' =
                [p \in DOMAIN total_occurrences |->
                    IF InWindow(window, p)
                       /\ IsPhenomenon(r.px[p], pixel_value_of_phenomena)
                    THEN total_occurrences[p] + 1
                    ELSE total_occurrences[p]]
          /\ IF p_blk + 1 < NumBlocks(r)
             THEN p_blk' = p_blk + 1 /\ idx' = idx
             ELSE p_blk' = 0 /\ idx' = idx + 1
    /\ UNCHANGED <<pc, err, dst_created, dst, written, writes>>
    /\ UNCHANGED <<tiff_list, pixel_value_of_phenomena, run>>
    /\ UNCHANGED notProb

\* total_occurrences / total_rasters written as one band (lines 49-63); the
\* quotient is kept exact
ProbWrite ==
    /\ pc = "p_rasters"
    /\ idx = Len(tiff_list)
    /\ dst_created' = TRUE
    /\ dst' = [p \in DOMAIN total_occurrences |->
                 Rat(total_occurrences[p], Len(tiff_list))]
    /\ written' = [p \in DOMAIN total_occurrences |-> 1]
    /\ writes' = Append(writes,
                        [window |-> Window(0, 0, tiff_list[1].width,
                                           tiff_list[1].height),
                         rows |-> tiff_list[1].height,
                         cols |-> tiff_list[1].width])
    /\ pc' = "p_returned"
    /\ UNCHANGED err
    /\ UNCHANGED <<tiff_list, pixel_value_of_phenomena, total_occurrences, idx,
                   p_blk, run>>
    /\ UNCHANGED notProb

\* ======================================================================
\* The same call made again
\* ======================================================================
\* After a call has ended (returned, raised or was interrupted) the caller
\* makes it again with the same arguments.  The output file of the earlier
\* call is still on disk (dst, written) and whatever the earlier call left in
\* its variables is still in memory; only the log of this call's writes and
\* its exception start empty.
MaxRuns == 2

FocalRerun ==
    /\ pc \in {"done", "error"}
    /\ run < MaxRuns
    /\ run' = run + 1
    /\ pc' = IF entry = "main" THEN "main" ELSE "open"
    /\ err' = ""
    /\ writes' = <<>>
    /\ UNCHANGED <<dst_created, dst, written>>
    /\ UNCHANGED <<focalOnly, unitVars, replaceOnly, maskOnly, probOnly,
                   convertOnly, polyOnly, resampleOnly>>

ReplaceRerun ==
    /\ pc = "r_returned"
    /\ run < MaxRuns
    /\ run' = run + 1
    /\ pc' = "r_open"
    /\ err' = ""
    /\ printed' = ""
    /\ writes' = <<>>
    /\ UNCHANGED <<dst_created, dst, written>>
    /\ UNCHANGED <<tile_size, value_to_replace, src1, src2, i_off, j_off>>
    /\ UNCHANGED <<focalOnly, unitVars, maskOnly, probOnly, convertOnly, polyOnly,
                   resampleOnly>>

ProbRerun ==
    /\ pc = "p_returned"
    /\ run < MaxRuns
    /\ run' = run + 1
    /\ pc' = "p_open"
    /\ writes' = <<>>
    /\ UNCHANGED <<err, dst_created, dst, written>>
    /\ UNCHANGED <<tiff_list, pixel_value_of_phenomena, total_occurrences, idx,
                   p_blk>>
    /\ UNCHANGED notProb

InitRerun ==
    \/ /\ Init
       /\ entry = "direct"
       /\ kernel_size >= 1
       /\ kernel_size % 2 = 1
    \/ InitReplace
    \/ InitProb

NextRerun ==
    \/ OpenInput \/ CreateOutput \/ ProcessBlock \/ Interrupt \/ Finish
    \/ FocalRerun
    \/ ReplaceOpen \/ ReplaceCreate \/ ReplaceRangeError \/ ReplaceTile
    \/ ReplaceTileIOError \/ ReplaceFinish \/ ReplaceRerun
    \/ ProbOpen \/ ProbBlock \/ ProbWrite \/ ProbRerun

SpecRerun == InitRerun /\ [][NextRerun]_vars

\* ------------------------------------------------------------- re-running
FocalBlocksAsComputed ==
    \A k \in 0..(NumBlocks(src) - 1) :
        LET window == BlockWindow(src, k)
            out == FocalTileOutput(k)
        IN \A p \in DOMAIN dst :
              InWindow(window, p) => dst[p] = out.at[SourceCell(out, window, p)]
OutputBlank ==
    \A p \in DOMAIN dst : dst[p] = Untouched /\ written[p] = 0
Occurrences(p) ==
    Cardinality({k \in 1..Len(tiff_list) :
                    tiff_list[k].px[p] = pixel_value_of_phenomena})

\* C13: a call made again with the same arguments, after a call that
\* completed or was aborted, starts its tile loop on a blank output with its
\* loop variables at the first tile, and when it completes its output is the
\* one the arguments alone determine, as for a single call (focal_stat_raster,
\* replace_pixel_value with tile_size >= 1); in
\* compute_probability_of_phenomena the accumulator is all zero when the
\* first raster is about to be processed, and the counts at the end are
\* those of this call's rasters alone.
C13_RerunEqualsSinglePass ==
    /\ (pc = "blocks" /\ writes = <<>>) => (blk = 0 /\ OutputBlank)
    /\ pc = "done" => FocalBlocksAsComputed
    /\ (pc = "r_loop" /\ writes = <<>>) =>
          (i_off = 0 /\ j_off = 0 /\ OutputBlank)
    /\ ReplaceComplete =>
          \A p \in DOMAIN dst : dst[p] = ReplaceTileValue(p)
    /\ (pc = "p_rasters" /\ idx = 0 /\ p_blk = 0) =>
          \A p \in DOMAIN total_occurrences : total_occurrences[p] = 0
    /\ pc = "p_returned" =>
          \A p \in DOMAIN dst :
             /\ total_occurrences[p] = Occurrences(p)
             /\ dst[p] = Rat(Occurrences(p), Len(tiff_list))

\* a second call of compute_probability_of_phenomena over two rasters that
\* has returned, with a pixel at which both rasters hold the value
C13_Witness ==
    /\ run = 2
    /\ pc = "p_returned"
    /\ Len(tiff_list) = 2
    /\ \E p \in DOMAIN dst : total_occurrences[p] = 2

\* second calls of the two tiled passes: a completed replace_pixel_value pass
\* of several tiles, and a focal_stat_raster pass that has written a block
\* over the output an interrupted first call left behind
C13_ReplaceWitness ==
    /\ run = 2
    /\ ReplaceComplete
    /\ Len(writes) >= 4
    /\ \E p \in DOMAIN dst : dst[p] # src1.px[p]
C13_FocalWitness ==
    /\ run = 2
    /\ pc \in {"blocks", "done"}
    /\ Len(writes) >= 1

\* ======================================================================
\* convert_to_8bit
\* ======================================================================
\* a raster of count bands stored in blocks of bh rows and bw columns; band b
\* holds the pattern moved down by b - 1 rows
ConvRaster(width, height, count, bh, bw) ==
    [width |-> width, height |-> height, count |-> count,
     block_h |-> bh, block_w |-> bw,
     px |-> [q \in (1..count) \X Cells(height, width) |->
                Pattern(width, q[2][1] + q[1] - 1, q[2][2])]]

\* src.read(band): the whole band (line 30)
ReadBand(r, band) ==
    Block(r.height, r.width,
          [p \in Cells(r.height, r.width) |-> r.px[<<band, p>>]])
BlockValues(a) == {a.at[p] : p \in DOMAIN a.at}
SetMin(S) == CHOOSE v \in S : \A u \in S : v <= u
SetMax(S) == CHOOSE v \in S : \A u \in S : v >= u

\* normalize (lines 7-11): (v - min) * (255.0 / (max - min)) cut to uint8.
\* For the differences max - min of the rasters above the quotient 255.0 /
\* (max - min) is an exact double.  With max = min the quotient is inf, the
\* product 0 * inf is nan, and the cast of nan to uint8 is not defined:
\* nan_as stands for whatever the platform stores.
normalize(v, input_min, input_max, nan_as) ==
    IF input_max = input_min THEN nan_as
    ELSE ((v - input_min) * 255) \div (input_max - input_min)

InitConvert ==
    /\ pc = "c_scan"
    /\ cv_src \in {ConvRaster(w, h, n, bh, bw) :
                      w \in 1..MaxDim, h \in 1..MaxDim, n \in 1..2,
                      bh \in 1..MaxBlock, bw \in 1..MaxBlock}
    /\ band_mins = <<>>
    /\ band_maxs = <<>>
    /\ band_data = EmptyBlock
    /\ data_block = EmptyBlock
    /\ ci_off = 0
    /\ cj_off = 0
    /\ err = ""
    /\ dst_created = FALSE
    /\ dst = <<>>
    /\ written = <<>>
    /\ writes = <<>>
    /\ FirstCall
    /\ FocalIdle /\ UnitIdle /\ ReplaceIdle /\ MaskIdle
    /\ ProbIdle /\ PolyIdle /\ ResampleIdle

\* one iteration of the loop of lines 29-32: read a band, keep its extremes
ConvertScanBand ==
    /\ pc = "c_scan"
    /\ Len(band_mins) < cv_src.count
    /\ band_data' = ReadBand(cv_src, Len(band_mins) + 1)
    /\ band_mins' = Append(band_mins, SetMin(BlockValues(band_data')))
    /\ band_maxs' = Append(band_maxs, SetMax(BlockValues(band_data')))
    /\ UNCHANGED <<pc, err, dst_created, dst, written, writes>>
    /\ UNCHANGED <<cv_src, data_block, ci_off, cj_off, run>>
    /\ UNCHANGED notConvert

\* the bands are scanned: block shape, metadata, output raster (lines 35-47)
ConvertCreate ==
    /\ pc = "c_scan"
    /\ Len(band_mins) = cv_src.count
    /\ dst_created' = TRUE
    /\ dst' = [q \in (1..cv_src.count) \X Cells(cv_src.height, cv_src.width) |-> 0]
    /\ written' = [p \in Cells(cv_src.height, cv_src.width) |-> 0]
    /\ ci_off' = 0
    /\ cj_off' = 0
    /\ pc' = "c_loop"
    /\ UNCHANGED <<err, writes>>
    /\ UNCHANGED <<cv_src, band_mins, band_maxs, band_data, data_block, run>>
    /\ UNCHANGED notConvert

\* one block of the loops of lines 49-68; data_block keeps the first band of
\* the block read at line 57
ConvertBlock ==
    /\ pc = "c_loop"
    /\ ci_off < cv_src.height
    /\ LET window == Window(cj_off, ci_off,
                            Min(cv_src.block_w, cv_src.width - cj_off),
                            Min(cv_src.block_h, cv_src.height - ci_off))
       IN /\ data_block' =
                Block(window.height, window.width,
                      [p \in Cells(window.height, window.width) |->
                          cv_src.px[<<1, <<ci_off + p[1], cj_off + p[2]>>>>]])
          /\ \E nan_as \in {0, 255} :
                dst' = [q \in DOMAIN dst |->
                           IF InWindow(window, q[2])
                           THEN normalize(cv_src.px[q], band_mins[q[1]],
                                          band_maxs[q[1]], nan_as)
                           ELSE dst[q]]
          /\ written' = CountWrite(written, window)
          /\ writes' = Append(writes, [window |-> window,
                                       rows |-> window.height,
                                       cols |-> window.width])
    /\ IF cj_off + cv_src.block_w < cv_src.width
       THEN cj_off' = cj_off + cv_src.block_w /\ ci_off' = ci_off
       ELSE cj_off' = 0 /\ ci_off' = ci_off + cv_src.block_h
    /\ UNCHANGED <<pc, err, dst_created>>
    /\ UNCHANGED <<cv_src, band_mins, band_maxs, band_data, run>>
    /\ UNCHANGED notConvert

\* the loops are exhausted, both rasters are closed
ConvertFinish ==
    /\ pc = "c_loop"
    /\ ci_off >= cv_src.height
    /\ pc' = "c_returned"
    /\ UNCHANGED <<err, dst_created, dst, written, writes>>
    /\ UNCHANGED <<convertOnly, run>>
    /\ UNCHANGED notConvert

NextConvert == ConvertScanBand \/ ConvertCreate \/ ConvertBlock \/ ConvertFinish

SpecConvert == InitConvert /\ [][NextConvert]_vars

\* --------------------------------------------------------------- memory
InConvert == pc \in {"c_scan", "c_loop", "c_returned"}
BlockArea == cv_src.block_h * cv_src.block_w

\* C14 (as claimed): during a pass of convert_to_8bit no array read from the
\* raster holds more pixels of a band than one block: no step reads a whole
\* band of a raster that is larger than a block.
C14_HeldPixelsWithinOneTile ==
    InConvert =>
        /\ band_data.rows * band_data.cols <= BlockArea
        /\ data_block.rows * data_block.cols <= BlockArea

\* ======================================================================
\* mask_raster_with_polygon
\* ======================================================================
\* the NoData value used when the source declares none (line 29)
DEFAULT_NODATA == -9999

UnsignedTypes == {"uint8", "uint16", "uint32", "uint64"}
SignedTypes == {"int8", "int16", "int32", "int64"}
FloatTypes == {"float32", "float64"}
SourceTypes == {"uint8", "uint16", "uint32", "uint64", "int8", "int16",
                "float64", "complex64"}

\* re.search(r'\d+', dtype): the bit size in the name of the type (line 39)
BitSize(t) ==
    CASE t \in {"uint8", "int8"} -> 8
      [] t \in {"uint16", "int16"} -> 16
      [] t \in {"uint32", "int32", "float32"} -> 32
      [] OTHER -> 64

\* the values an integer type holds, the 32 and 64 bit types cut to 31 bits
\* (no raster below comes near their ends); the float types hold every value
\* of the rasters below and -9999
Pow2(n) == IF n = 8 THEN 256 ELSE IF n = 16 THEN 65536 ELSE 1073741824
TypeMin(t) ==
    IF t \in UnsignedTypes THEN 0
    ELSE IF t = "int8" THEN -128 ELSE IF t = "int16" THEN -32768
    ELSE -1073741824
TypeMax(t) ==
    IF t \in {"uint8", "int8", "uint16", "int16"}
    THEN TypeMin(t) + Pow2(BitSize(t)) - 1
    ELSE 1073741823
Representable(t, v) ==
    t \in FloatTypes \/ (TypeMin(t) <= v /\ v <= TypeMax(t))
\* an out-of-range integer stored by a numpy that wraps it
Wrapped(t, v) == ((v - TypeMin(t)) % Pow2(BitSize(t))) + TypeMin(t)

\* the type chosen at lines 32-56 when the source declares no NoData: a
\* type name, or "" when the branch raises ValueError
PromotedType(t) ==
    IF t \in UnsignedTypes
    THEN CASE BitSize(t) = 8 -> "int16"
           [] BitSize(t) = 16 -> "int32"
           [] BitSize(t) = 32 -> "int64"
           [] OTHER -> ""
    ELSE IF t \in SignedTypes THEN t
    ELSE IF t \in FloatTypes THEN "float32"
    ELSE ""

PolyRaster(width, height, count, bw, bh, t, nodata) ==
    [width |-> width, height |-> height, count |-> count,
     block_w |-> bw, block_h |-> bh, dtype |-> t, nodata |-> nodata,
     px |-> [q \in (1..count) \X Cells(height, width) |->
                Pattern(width, q[2][1] + q[1] - 1, q[2][2])]]

\* geometry_mask(..., invert=True) over the raster: nothing covered, all
\* covered, the upper left triangle covered
Coverages(width, height) ==
    {{}, Cells(height, width), {p \in Cells(height, width) : p[2] <= p[1]}}

InitPoly ==
    /\ pc = "g_open"
    /\ \E w \in 1..MaxDim, h \in 1..MaxDim, n \in 1..2, bw \in 1..MaxBlock,
          bh \in 1..MaxBlock, t \in SourceTypes, nd \in NodataChoices :
          /\ poly_src = PolyRaster(w, h, n, bw, bh, t, nd)
          /\ geometries \in Coverages(w, h)
    /\ dtype = ""
    /\ nodata_value = 0
    /\ poly_blk = 0
    /\ err = ""
    /\ dst_created = FALSE
    /\ dst = <<>>
    /\ written = <<>>
    /\ writes = <<>>
    /\ FirstCall
    /\ FocalIdle /\ UnitIdle /\ ReplaceIdle /\ MaskIdle
    /\ ProbIdle /\ ConvertIdle /\ ResampleIdle

\* nodata_value and dtype (lines 22-56); dtype is assigned only when the
\* source declares no NoData value
PolyOpen ==
    /\ pc = "g_open"
    /\ nodata_value' = IF poly_src.nodata # {} THEN FillValue(poly_src)
                       ELSE DEFAULT_NODATA
    /\ IF poly_src.nodata # {}
       THEN dtype' = "" /\ pc' = "g_meta" /\ err' = err
       ELSE IF PromotedType(poly_src.dtype) = ""
       THEN /\ dtype' = poly_src.dtype
            /\ pc' = "error"
            /\ err' = "ValueError: unsupported data type"
       ELSE /\ dtype' = PromotedType(poly_src.dtype)
            /\ pc' = "g_meta"
            /\ err' = err
    /\ UNCHANGED <<dst_created, dst, written, writes>>
    /\ UNCHANGED <<poly_src, geometries, poly_blk, run>>
    /\ UNCHANGED notPoly

\* the polygons are read, out_meta is built from dtype and the output raster
\* is created (lines 59-85); reading the unbound local dtype at line 80
\* raises UnboundLocalError
PolyMeta ==
    /\ pc = "g_meta"
    /\ IF dtype = ""
       THEN /\ pc' = "error"
            /\ err' = "UnboundLocalError: dtype"
            /\ UNCHANGED <<dst_created, dst, written>>
       ELSE /\ pc' = "g_blocks"
            /\ err' = err
            /\ dst_created' = TRUE
            /\ dst' = [q \in DOMAIN poly_src.px |-> 0]
            /\ written' = [p \in Cells(poly_src.height, poly_src.width) |-> 0]
    /\ poly_blk' = 0
    /\ UNCHANGED writes
    /\ UNCHANGED <<poly_src, geometries, dtype, nodata_value, run>>
    /\ UNCHANGED notPoly

\* one block window (lines 87-109).  src_data has the promoted type when the
\* source is unsigned and the source type otherwise; storing nodata_value in
\* an integer array that cannot hold it raises OverflowError or stores the
\* wrapped value, depending on the numpy installed.
PolyBlock ==
    /\ pc = "g_blocks"
    /\ poly_blk < NumBlocks(poly_src)
    /\ LET window == BlockWindow(poly_src, poly_blk)
           array_type == IF poly_src.dtype \in UnsignedTypes THEN dtype
                         ELSE poly_src.dtype
           outside == {p \in Cells(poly_src.height, poly_src.width) :
                          InWindow(window, p) /\ p \notin geometries}
           fits == Representable(array_type, nodata_value)
       IN \E numpy \in {"raises", "wraps"} :
             IF outside # {} /\ ~fits /\ numpy = "raises"
             THEN /\ pc' = "error"
                  /\ err' = "OverflowError: nodata_value out of bounds"
                  /\ UNCHANGED <<dst, written, writes, poly_blk>>
             ELSE /\ dst' = [q \in DOMAIN dst |->
                               IF ~InWindow(window, q[2]) THEN dst[q]
                               ELSE IF q[2] \in geometries THEN poly_src.px[q]
                               ELSE IF fits THEN nodata_value
                               ELSE Wrapped(array_type, nodata_value)]
                  /\ written' = CountWrite(written, window)
                  /\ writes' = Append(writes, [window |-> window,
                                               rows |-> window.height,
                                               cols |-> window.width])
                  /\ poly_blk' = poly_blk + 1
                  /\ UNCHANGED <<pc, err>>
    /\ UNCHANGED dst_created
    /\ UNCHANGED <<poly_src, geometries, dtype, nodata_value, run>>
    /\ UNCHANGED notPoly

\* the block windows are exhausted, the rasters are closed
PolyFinish ==
    /\ pc = "g_blocks"
    /\ poly_blk = NumBlocks(poly_src)
    /\ pc' = "g_returned"
    /\ UNCHANGED <<err, dst_created, dst, written, writes>>
    /\ UNCHANGED <<polyOnly, run>>
    /\ UNCHANGED notPoly

NextPoly == PolyOpen \/ PolyMeta \/ PolyBlock \/ PolyFinish

SpecPoly == InitPoly /\ [][NextPoly]_vars

\* ------------------------------------------------------- polygon masking
\* C20 (as claimed): for a source raster that declares a NoData value,
\* mask_raster_with_polygon does not fail, its output has the source's data
\* type, and when it has returned every band holds the source value at the
\* pixels inside the polygon and the source's NoData value outside.
C20_MaskedWithSourceNodata ==
    (poly_src # <<>> /\ poly_src.nodata # {}) =>
        /\ pc # "error"
        /\ dst_created => dtype = poly_src.dtype
        /\ pc = "g_returned" =>
              \A q \in DOMAIN dst :
                 dst[q] = IF q[2] \in geometries THEN poly_src.px[q]
                          ELSE FillValue(poly_src)

\* ======================================================================
\* compute_probability_of_phenomena, folder version
\* ======================================================================
\* georeferencing of a raster: CRS, origin of the transform, and the bounds
\* that follow from the origin and the size
Georefs ==
    {[crs |-> "EPSG:4326", origin |-> 0],
     [crs |-> "EPSG:3857", origin |-> 0],
     [crs |-> "EPSG:4326", origin |-> 1]}
FolderRaster(width, height, bw, bh, k, g) ==
    [width |-> width, height |-> height, block_w |-> bw, block_h |-> bh,
     nodata |-> {},
     crs |-> g.crs,
     transform |-> <<g.origin, g.origin>>,
     bounds |-> <<g.origin, g.origin, g.origin + width, g.origin + height>>,
     px |-> [p \in Cells(height, width) |-> Pattern(width, p[1] + k - 1, p[2])]]

\* check_rasters(rasters, crs, bounds, transform), lines 6-20
check_rasters(rasters, crs, bounds, transform) ==
    \A k \in DOMAIN rasters :
        /\ rasters[k].crs = crs
        /\ rasters[k].bounds = bounds
        /\ rasters[k].transform = transform

\* tiff_files, the .tif files of the folder in the order os.listdir gives them
InitFolder ==
    /\ pc = "f_open"
    /\ \E w \in 1..MaxDim, h \in 1..MaxDim, bw \in 1..MaxBlock,
          bh \in 1..MaxBlock, n \in 1..MaxRasters, g \in [1..MaxRasters -> Georefs] :
          tiff_list = [k \in 1..n |-> FolderRaster(w, h, bw, bh, k, g[k])]
    /\ pixel_value_of_phenomena \in 1..2
    /\ total_occurrences = <<>>
    /\ idx = 0
    /\ p_blk = 0
    /\ err = ""
    /\ dst_created = FALSE
    /\ dst = <<>>
    /\ written = <<>>
    /\ writes = <<>>
    /\ FirstCall
    /\ FocalIdle /\ UnitIdle /\ ReplaceIdle /\ MaskIdle
    /\ ConvertIdle /\ PolyIdle /\ ResampleIdle

\* open the first raster and create the accumulator (lines 36-46)
FolderOpen ==
    /\ pc = "f_open"
    /\ total_occurrences' = np_zeros(tiff_list[1].height, tiff_list[1].width)
    /\ idx' = 0
    /\ p_blk' = 0
    /\ pc' = "f_rasters"
    /\ UNCHANGED <<err, dst_created, dst, written, writes>>
    /\ UNCHANGED <<tiff_list, pixel_value_of_phenomena, run>>
    /\ UNCHANGED notProb

\* one block window of raster idx (lines 49-61); no raster is compared with
\* the first one: check_rasters is not called
FolderBlock ==
    /\ pc = "f_rasters"
    /\ idx < Len(tiff_list)
    /\ LET r == tiff_list[idx + 1]
           window == BlockWindow(r, p_blk)
       IN /\ total_occurrences' =
                [p \in DOMAIN total_occurrences |->
                    IF InWindow(window, p)
                       /\ IsPhenomenon(r.px[p], pixel_value_of_phenomena)
                    THEN total_occurrences[p] + 1
                    ELSE total_occurrences[p]]
          /\ IF p_blk + 1 < NumBlocks(r)
             THEN p_blk' = p_blk + 1 /\ idx' = idx
             ELSE p_blk' = 0 /\ idx' = idx + 1
    /\ UNCHANGED <<pc, err, dst_created, dst, written, writes>>
    /\ UNCHANGED <<tiff_list, pixel_value_of_phenomena, run>>
    /\ UNCHANGED notProb

\* total_occurrences / total_rasters written as one band (lines 64-78)
FolderWrite ==
    /\ pc = "f_rasters"
    /\ idx = Len(tiff_list)
    /\ dst_created' = TRUE
    /\ dst' = [p \in DOMAIN total_occurrences |->
                 Rat(total_occurrences[p], Len(tiff_list))]
    /\ written' = [p \in DOMAIN total_occurrences |-> 1]
    /\ writes' = Append(writes,
                        [window |-> Window(0, 0, tiff_list[1].width,
                                           tiff_list[1].height),
                         rows |-> tiff_list[1].height,
                         cols |-> tiff_list[1].width])
    /\ pc' = "f_returned"
    /\ UNCHANGED err
    /\ UNCHANGED <<tiff_list, pixel_value_of_phenomena, total_occurrences, idx,
                   p_blk, run>>
    /\ UNCHANGED notProb

InitCount == InitProb \/ InitFolder
NextCount ==
    \/ ProbOpen \/ ProbBlock \/ ProbWrite
    \/ FolderOpen \/ FolderBlock \/ FolderWrite
SpecCount == InitCount /\ [][NextCount]_vars

\* ======================================================================
\* resample_geotiff
\* ======================================================================
MaxGsd == 3
RESAMPLE_BLOCK == 1024

ResamplingMethods ==
    {"nearest", "bilinear", "cubic", "cubic_spline", "lanczos", "average", "mode"}

\* int(n * old_gsd / new_gsd) for n >= 0; scale_factor = old_gsd / new_gsd is
\* kept as the exact quotient (lines 36-38, 63-66)
Scaled(n, old_gsd, new_gsd) == (n * old_gsd) \div new_gsd

\* new_window of lines 62-67 for the source block at (col, row)
NewWindow(col, row, block_width, block_height, old_gsd, new_gsd) ==
    Window(Scaled(col, old_gsd, new_gsd), Scaled(row, old_gsd, new_gsd),
           Scaled(block_width, old_gsd, new_gsd),
           Scaled(block_height, old_gsd, new_gsd))

InitResample ==
    /\ pc = "s_open"
    /\ \E w \in 1..MaxDim, h \in 1..MaxDim, g \in 1..MaxGsd :
          rs_src = [width |-> w, height |-> h, old_gsd |-> g]
    /\ target_gsd \in 1..MaxGsd
    /\ resampling_method \in {"nearest", "average", "majority"}
    /\ block_size \in ((1..MaxBlock) \X (1..MaxBlock))
                       \cup {<<RESAMPLE_BLOCK, RESAMPLE_BLOCK>>}
    /\ row_start = 0
    /\ col_start = 0
    /\ err = ""
    /\ dst_created = FALSE
    /\ dst = <<>>
    /\ written = <<>>
    /\ writes = <<>>
    /\ FirstCall
    /\ FocalIdle /\ UnitIdle /\ ReplaceIdle /\ MaskIdle
    /\ ProbIdle /\ ConvertIdle /\ PolyIdle

\* the method check, the GSD comparison, the new size and transform, and the
\* creation of the output (lines 14-53)
ResampleOpen ==
    /\ pc = "s_open"
    /\ LET new_width == Scaled(rs_src.width, rs_src.old_gsd, target_gsd)
           new_height == Scaled(rs_src.height, rs_src.old_gsd, target_gsd)
       IN IF resampling_method \notin ResamplingMethods
          THEN /\ pc' = "error"
               /\ err' = "ValueError: invalid resampling method"
               /\ UNCHANGED <<dst_created, dst, written>>
          ELSE IF rs_src.old_gsd = target_gsd
          THEN /\ pc' = "s_returned"
               /\ UNCHANGED <<err, dst_created, dst, written>>
          ELSE IF new_width = 0 \/ new_height = 0
          THEN /\ pc' = "error"
               /\ err' = "ZeroDivisionError: src.width / new_width"
               /\ UNCHANGED <<dst_created, dst, written>>
          ELSE /\ pc' = "s_blocks"
               /\ dst_created' = TRUE
               /\ dst' = [p \in Cells(new_height, new_width) |-> 0]
               /\ written' = [p \in Cells(new_height, new_width) |-> 0]
               /\ UNCHANGED err
    /\ row_start' = 0
    /\ col_start' = 0
    /\ UNCHANGED writes
    /\ UNCHANGED <<rs_src, target_gsd, resampling_method, block_size>>
    /\ UNCHANGED notResample

\* one source block (lines 54-81): the block is read, new_window computed,
\* the block reprojected into an array of new_window's shape and written.
\* A new_window of no columns or no rows makes reproject or dst.write fail
\* or leaves the output untouched, depending on the library.  dst records
\* for each pixel the row-major number of the last block written over it.
ResampleBlock ==
    /\ pc = "s_blocks"
    /\ row_start < rs_src.height
    /\ LET block_width == Min(block_size[1], rs_src.width - col_start)
           block_height == Min(block_size[2], rs_src.height - row_start)
           new_window == NewWindow(col_start, row_start, block_width,
                                   block_height, rs_src.old_gsd, target_gsd)
           empty == new_window.width = 0 \/ new_window.height = 0
       IN \E library \in {"raises", "skips"} :
             IF empty /\ library = "raises"
             THEN /\ pc' = "error"
                  /\ err' = "reproject: destination has no extent"
                  /\ UNCHANGED <<dst, written, writes, row_start, col_start>>
             ELSE /\ dst' = [p \in DOMAIN dst |->
                               IF InWindow(new_window, p) THEN Len(writes) + 1
                               ELSE dst[p]]
                  /\ written' = CountWrite(written, new_window)
                  /\ writes' = Append(writes, [window |-> new_window,
                                               rows |-> new_window.height,
                                               cols |-> new_window.width])
                  /\ IF col_start + block_size[1] < rs_src.width
                     THEN /\ col_start' = col_start + block_size[1]
                          /\ row_start' = row_start
                     ELSE /\ col_start' = 0
                          /\ row_start' = row_start + block_size[2]
                  /\ UNCHANGED <<pc, err>>
    /\ UNCHANGED dst_created
    /\ UNCHANGED <<rs_src, target_gsd, resampling_method, block_size>>
    /\ UNCHANGED notResample

\* the loops are exhausted, the rasters are closed (line 82)
ResampleFinish ==
    /\ pc = "s_blocks"
    /\ row_start >= rs_src.height
    /\ pc' = "s_returned"
    /\ UNCHANGED <<err, dst_created, dst, written, writes>>
    /\ UNCHANGED resampleOnly
    /\ UNCHANGED notResample

NextResample == ResampleOpen \/ ResampleBlock \/ ResampleFinish
SpecResample == InitResample /\ [][NextResample]_vars

\* ------------------------------------------------------------ C21 .. C30
InFocal == entry # ""
PadSize == kernel_size \div 2
InsideRaster(r, w) ==
    /\ w.col_off >= 0 /\ w.row_off >= 0
    /\ w.width > 0 /\ w.height > 0
    /\ w.col_off + w.width <= r.width
    /\ w.row_off + w.height <= r.height

\* C21: for every block window of the raster and every pad radius r >= 0,
\* the padded read window has non-negative offsets and positive extents and
\* lies inside the raster, and the array read for a block has its shape.
C21_PaddedWindowInsideRaster ==
    (InFocal /\ PadSize >= 0) =>
        /\ \A k \in 0..(NumBlocks(src) - 1) :
              InsideRaster(src, PaddedWindow(src, BlockWindow(src, k), PadSize))
        /\ \A k \in DOMAIN writes :
              InsideRaster(src, PaddedWindow(src, writes[k].window, PadSize))
        /\ (pc = "blocks" /\ blk >= 1) =>
              LET w == PaddedWindow(src, BlockWindow(src, blk - 1), PadSize)
              IN arr.rows = w.height /\ arr.cols = w.width
C21_Witness ==
    /\ InFocal /\ PadSize >= 1 /\ pc = "blocks" /\ blk >= 2
    /\ LET window == BlockWindow(src, blk - 1)
           w == PaddedWindow(src, window, PadSize)
       IN /\ window.col_off > 0
          /\ w.col_off = 0
          /\ w.width = src.width - window.col_off
          /\ arr.cols = w.width

\* the tile expanded by pad_size on all four sides and clipped to the raster
ClippedExpansion(r, window, pad_size) ==
    LET left == Max(0, window.col_off - pad_size)
        top == Max(0, window.row_off - pad_size)
        right == Min(r.width, window.col_off + window.width + pad_size)
        bottom == Min(r.height, window.row_off + window.height + pad_size)
    IN Window(left, top, right - left, bottom - top)

\* C22: the padded read window of a processed block is the tile expanded by
\* r on all four sides and clipped to the raster: left = max(0, c - r),
\* top = max(0, o - r), right edge = min(W, c + w + r), bottom edge =
\* min(H, o + h + r), and the array read has that shape.
C22_PaddedWindowIsClippedExpansion ==
    (InFocal /\ PadSize >= 0 /\ pc = "blocks" /\ blk >= 1) =>
        LET window == BlockWindow(src, blk - 1)
            expected == ClippedExpansion(src, window, PadSize)
        IN /\ PaddedWindow(src, window, PadSize) = expected
           /\ arr.rows = expected.height /\ arr.cols = expected.width

\* C23: the buffer handed to focal_stat for a processed block has exactly
\* tile.width + 2r columns and tile.height + 2r rows, so that every output
\* pixel of the tile has a full (2r+1) x (2r+1) window.
C23_BufferIsTilePlusPadding ==
    (InFocal /\ PadSize >= 0 /\ kernel_size % 2 = 1 /\ writes # <<>>
        /\ err # "KeyboardInterrupt") =>
        LET window == writes[Len(writes)].window
        IN /\ arr.cols = window.width + 2 * PadSize
           /\ arr.rows = window.height + 2 * PadSize

\* C24: with kernel_size = 1 the pass goes through; the read window of a
\* processed block equals the tile, the trimmed output block has the tile's
\* full shape, and for mean, median, min, max and sum every output pixel
\* equals its input pixel when that is valid and the output NoData when it
\* is NoData.
IdentityStats == {"mean", "median", "min", "max", "sum"}
C24_KernelOneIsIdentity ==
    (InFocal /\ kernel_size = 1 /\ stat \in IdentityStats
        /\ err # "KeyboardInterrupt") =>
        /\ \A k \in DOMAIN writes :
              /\ PaddedWindow(src, writes[k].window, PadSize) = writes[k].window
              /\ writes[k].rows = writes[k].window.height
              /\ writes[k].cols = writes[k].window.width
        /\ dst_created => pc # "error"
        /\ \A p \in DOMAIN written :
              written[p] > 0 =>
                 dst[p] = IF src.px[p] \in src.nodata THEN FromInt(OUTPUT_NODATA)
                          ELSE FromInt(src.px[p])

\* C25: every kernel_size <= 0, the negative odd values -1 and -3 included,
\* is rejected with a configuration error before the output is created.
C25_NonPositiveKernelRejected ==
    (InFocal /\ kernel_size <= 0) => ~dst_created

\* C28: for an input whose NoData differs from -9999, a cell of the block
\* handed to dst.write holds -9999 only if the window it was computed from
\* had no valid value; a statistic computed from valid values is never
\* written as -9999.
C28_NodataOnlyForEmptyWindows ==
    (InFocal /\ PadSize >= 1 /\ stat \in Implemented /\ writes # <<>>
        /\ OUTPUT_NODATA \notin src.nodata /\ err # "KeyboardInterrupt") =>
        \A p \in Cells(filtered_arr.rows, filtered_arr.cols) :
            filtered_arr.at[p] = FromInt(OUTPUT_NODATA) =>
                ValidValues(WindowOf(ToNaN(arr, src.nodata), PadSize,
                                     p[1] + PadSize, p[2] + PadSize)) = <<>>

\* C29: when the source declares no NoData value, the output data type
\* chosen for a supported source type (uint8, uint16, uint32, the signed
\* integer types including int8, the floating types) can represent -9999 and
\* every source pixel value without change, and the masked pixels written
\* hold -9999.
C29_OutputTypeHoldsNodata ==
    (poly_src # <<>> /\ poly_src.nodata = {} /\ dst_created) =>
        /\ nodata_value = DEFAULT_NODATA
        /\ Representable(dtype, nodata_value)
        /\ \A q \in DOMAIN poly_src.px : Representable(dtype, poly_src.px[q])
        /\ pc # "error"
        /\ \A q \in DOMAIN dst :
              (written[q[2]] > 0 /\ q[2] \notin geometries) =>
                  dst[q] = DEFAULT_NODATA

InCountLoop == pc \in {"p_rasters", "f_rasters"}
CountReturned == pc \in {"p_returned", "f_returned"}
\* the number of the first k rasters whose pixel p holds the phenomenon
MatchingAmong(p, k) ==
    Cardinality({m \in 1..k : tiff_list[m].px[p] = pixel_value_of_phenomena})
\* pixel p lies in one of the first n block windows of raster r
BlocksDone(r, n, p) == \E b \in 0..(n - 1) : InWindow(BlockWindow(r, b), p)

\* C26: in both versions the accumulator is all zero when the pass starts;
\* after the first k rasters each pixel's counter equals the number of those
\* k rasters whose pixel equals pixel_value_of_phenomena (within raster k+1,
\* its finished blocks are counted too), so 0 <= counter <= k; the
\* probability written is counter / N and lies in [0, 1].
C26_CounterCountsMatchingRasters ==
    /\ (InCountLoop /\ idx = 0 /\ p_blk = 0) =>
          \A p \in DOMAIN total_occurrences : total_occurrences[p] = 0
    /\ (InCountLoop \/ CountReturned) =>
          \A p \in DOMAIN total_occurrences :
             LET partial ==
                    IF /\ idx < Len(tiff_list)
                       /\ BlocksDone(tiff_list[idx + 1], p_blk, p)
                       /\ tiff_list[idx + 1].px[p] = pixel_value_of_phenomena
                    THEN 1 ELSE 0
             IN /\ total_occurrences[p] = MatchingAmong(p, idx) + partial
                /\ p_blk = 0 => (0 <= total_occurrences[p]
                                 /\ total_occurrences[p] <= idx)
    /\ CountReturned =>
          \A p \in DOMAIN dst :
             /\ dst[p] = Rat(MatchingAmong(p, Len(tiff_list)), Len(tiff_list))
             /\ RLe(FromInt(0), dst[p]) /\ RLe(dst[p], FromInt(1))
C26_Witness ==
    /\ pc = "f_returned"
    /\ Len(tiff_list) = 2
    /\ \E p \in DOMAIN dst : total_occurrences[p] = 2 /\ dst[p] = FromInt(1)
    /\ \E p \in DOMAIN dst : total_occurrences[p] = 0 /\ dst[p] = FromInt(0)

\* raster k of the folder has the CRS, bounds and transform of the first one
SameGrid(k) ==
    /\ tiff_list[k].crs = tiff_list[1].crs
    /\ tiff_list[k].bounds = tiff_list[1].bounds
    /\ tiff_list[k].transform = tiff_list[1].transform

\* C30: the folder version adds a raster's pixels to the accumulator only if
\* the raster has the CRS, bounds and transform of the first raster; when a
\* raster of the folder differs, the pass stops and no probability raster is
\* written.
C30_MismatchedRasterStopsPass ==
    pc \in {"f_rasters", "f_returned"} =>
        /\ \A p \in DOMAIN total_occurrences :
              total_occurrences[p] <=
                 Cardinality({k \in 1..Len(tiff_list) :
                                 SameGrid(k) /\ IsPhenomenon(tiff_list[k].px[p],
                                                pixel_value_of_phenomena)})
        /\ ~check_rasters(tiff_list, tiff_list[1].crs, tiff_list[1].bounds,
                          tiff_list[1].transform)
              => ~dst_created

\* C27: for every source size, block size and scale factor old_gsd / new_gsd
\* the destination windows written by resample_geotiff are pairwise
\* non-overlapping, lie inside the new_width x new_height output, and, once
\* the pass has returned, cover every output pixel exactly once.
C27_DestinationWindowsPartitionOutput ==
    (rs_src # <<>> /\ dst_created) =>
        LET new_width == Scaled(rs_src.width, rs_src.old_gsd, target_gsd)
            new_height == Scaled(rs_src.height, rs_src.old_gsd, target_gsd)
        IN /\ \A k \in DOMAIN writes :
                 /\ writes[k].window.col_off >= 0
                 /\ writes[k].window.row_off >= 0
                 /\ writes[k].window.col_off + writes[k].window.width <= new_width
                 /\ writes[k].window.row_off + writes[k].window.height <= new_height
           /\ \A p \in DOMAIN written : written[p] <= 1
           /\ pc = "s_returned" => \A p \in DOMAIN written : written[p] = 1

====
